---- MODULE Spec2Model ----
(***************************************************************************)
(* A model of the EPG generator's reconciliation core                      *)
(* (src/epg_generator.py): the interval deduplication store, the channel   *)
(* name normaliser and fuzzy matcher, the external channel id allocator    *)
(* and the multi-source merge loop of epg_main; the cached download of     *)
(* a remote file (download_with_cache) and the attribute escaping of the   *)
(* playlist generator (src/playlist_generator.py).                         *)
(*                                                                         *)
(* Encodings.                                                              *)
(*  - A channel id is a pair <<prefix, rest>> standing for the string      *)
(*    prefix + rest: <<"unm_", "1">> is "unm_1", <<"", "5">> is "5".       *)
(*    None (and the empty string) is <<>>.                                 *)
(*  - A timestamp string "YYYYMMDDHHMMSS +ZZZZ" is <<word, offset>>: word  *)
(*    is the date-time word before the first blank, a natural number       *)
(*    (its rank in time order) or BadWord for a word strptime rejects;     *)
(*    the empty string is <<>>.                                            *)
(*  - A channel name is a sequence of one-character strings; a CJK         *)
(*    character is written as one token ("Ou" "Zhou" for the two           *)
(*    characters of the region keyword, and so on).                        *)
(*  - The content of a file is a sequence: <<k>> is the complete body of   *)
(*    the download number k, <<>> an empty file, Absent no file.           *)
(***************************************************************************)
EXTENDS Integers, Sequences, FiniteSets, TLC

VARIABLES
    programme_list,        \* epg_main: programme_list (accepted programs, in order)
    channel_time_ranges,   \* epg_main: channel_time_ranges (channel -> accepted intervals)
    last_prog,             \* the argument new_prog of the last call of the store
    last_result,           \* what that call returned ("none" before any call)
    fm_local,              \* fuzzy_match: the argument local_clean_name
    fm_ext_names,          \* fuzzy_match: the argument ext_names
    fm_clean_ext_name,     \* fuzzy_match: the argument clean_ext_name
    fm_result,             \* fuzzy_match: the value returned
    fm_pc,                 \* "idle", "ready" (before the call) or "done" (after it)
    fm_calls,              \* fuzzy_match: number of calls made with these arguments
    fm_prev_result,        \* fuzzy_match: the value the call before the last returned
    cn_raw_name,           \* clean_channel_name: the argument of the first call
    cn_prev,               \* clean_channel_name: the value the call before the last returned
    cn_result,             \* clean_channel_name: the value the last call returned
    cn_calls,              \* clean_channel_name: number of calls made (-1 when idle)
    pc,                    \* epg_main: "idle", "start", "returned", "sources" (step 4 loop), "fatal", "done"
    source_idx,            \* epg_main: how many entries of enabled_sources the loop has consumed
    unmatched_bjcul_channels,        \* epg_main: the channels that need an external source
    pending_channels,                \* epg_main: positions in unmatched_bjcul_channels (shared dicts)
    temp_num_counter,                \* epg_main: number of the next temporary id
    channel_has_official_prog,       \* epg_main: ids with official programs
    channel_has_external_single,     \* epg_main: ids of satisfied single-contribution channels
    channel_has_external_multi,      \* epg_main: ids of other channels with external programs
    ext_id_mapping,                  \* epg_main: external native id -> output id
    ext_channel_name_to_final_id,    \* epg_main: external resolved name -> output id
    ext_final_id_to_info,            \* epg_main: output id -> the external channel it was minted for
    all_external_programs,           \* epg_main: programs of external channels, by output id
    global_final_unmatched_channels, \* epg_main: positions of the channels no source has matched
    full_channel_info,               \* epg_main: the channels of the source processed last, renamed
    epg_lite,                        \* the document written to EPG_SAVE_PATH
    epg_full,                        \* the document written to EPG_FULL_SAVE_PATH
    config,                          \* epg_main: the settings of EPG_CONFIG the run reads
    io,                              \* what the run has read, downloaded, logged and written
    cache_file,            \* download_with_cache: the content of the cache file of the URL
    old_cache_file,        \* download_with_cache: the content of the backup file (_old)
    dc_entry,              \* download_with_cache: the content of the cache file when the last call began
    dc_outcomes,           \* download_with_cache: what each attempt of the last call met
    dc_result,             \* download_with_cache: the value the last call returned ("none" before any call)
    dc_last_body,          \* the body of the most recent successful download (Absent when none)
    dc_calls,              \* download_with_cache: number of calls made (-1 when idle)
    hs_s,                  \* htmlspecialchars: the argument s
    hs_result,             \* htmlspecialchars: the value returned
    hs_pc                  \* "idle", "ready" (before the call) or "done" (after it)

storeVars == <<programme_list, channel_time_ranges>>
callVars == <<last_prog, last_result>>
fuzzyVars ==
    <<fm_local, fm_ext_names, fm_clean_ext_name, fm_result, fm_pc, fm_calls, fm_prev_result>>
pendingVars ==
    <<unmatched_bjcul_channels, pending_channels, temp_num_counter,
      channel_has_official_prog, channel_has_external_single,
      channel_has_external_multi, global_final_unmatched_channels>>
allocVars ==
    <<ext_id_mapping, ext_channel_name_to_final_id, ext_final_id_to_info,
      all_external_programs, full_channel_info>>
outputVars == <<epg_lite, epg_full>>
runVars == <<config, io>>
mainVars == <<pc, source_idx, pendingVars, allocVars, outputVars, runVars>>
cleanVars == <<cn_raw_name, cn_prev, cn_result, cn_calls>>
cacheVars ==
    <<cache_file, old_cache_file, dc_entry, dc_outcomes, dc_result, dc_last_body, dc_calls>>
escapeVars == <<hs_s, hs_result, hs_pc>>
utilVars == <<cacheVars, escapeVars>>
vars == <<storeVars, callVars, fuzzyVars, cleanVars, mainVars, utilVars>>

------------------------------------------------------------------------------
(* Bounds of the model *)

MaxTime == 2
MaxStored == 3
MaxCandidates == 3
MaxSources == 3
MaxNameLen == 4
MaxCleanCalls == 2
MaxFuzzyCalls == 2
MaxRetry == 2
MaxCacheCalls == 3
MaxEscapeLen == 3

------------------------------------------------------------------------------
(* Values *)

None == <<>>
NoneTs == -1
BadWord == -2

Id(prefix, rest) == <<prefix, rest>>

\* os.path.exists(file) is False
Absent == <<-1>>

Offsets == {"+0800"}
Times == 0 .. MaxTime
WellFormedTimeStrs == {<<w, o>> : w \in Times, o \in Offsets}

------------------------------------------------------------------------------
(* The interval deduplication store *)

\* time_str.split(' ')[0], strptime, timestamp(): the offset is dropped; a
\* word strptime rejects gives None.
parse_time_str_to_timestamp(time_str) ==
    IF time_str = <<>> THEN NoneTs
    ELSE IF time_str[1] \in Nat THEN time_str[1] ELSE NoneTs

\* A variant that misses an existing interval starting before the new one.
is_time_overlap_start_inside(new_start_ts, new_end_ts, exist_start_ts, exist_end_ts) ==
    new_start_ts <= exist_start_ts /\ exist_start_ts < new_end_ts

\* A variant that takes the intervals as closed ones.
is_time_overlap_closed(new_start_ts, new_end_ts, exist_start_ts, exist_end_ts) ==
    new_start_ts <= exist_end_ts /\ exist_start_ts <= new_end_ts

is_time_overlap(new_start_ts, new_end_ts, exist_start_ts, exist_end_ts) ==
    new_start_ts < exist_end_ts /\ exist_start_ts < new_end_ts

\* A variant that compares with the first stored interval only.
OverlapsAny_first_only(ranges, new_start_ts, new_end_ts) ==
    /\ Len(ranges) > 0
    /\ is_time_overlap(new_start_ts, new_end_ts, ranges[1][1], ranges[1][2])

\* The for loop over channel_time_ranges[channel]: TRUE iff some stored
\* interval overlaps the new one.
OverlapsAny(ranges, new_start_ts, new_end_ts) ==
    \E i \in 1 .. Len(ranges) :
        is_time_overlap(new_start_ts, new_end_ts, ranges[i][1], ranges[i][2])

\* A variant that starts the channel's list afresh on every call.
EnsureKey_reset(ctr, channel) ==
    [c \in DOMAIN ctr \cup {channel} |-> IF c = channel THEN <<>> ELSE ctr[c]]

\* channel_time_ranges[channel] = [] when the key is absent.
EnsureKey(ctr, channel) ==
    IF channel \in DOMAIN ctr THEN ctr ELSE ctr @@ (channel :> <<>>)

\* A variant that creates the channel's key before the timestamps are parsed.
add_program_key_before_parse(pl, ctr, new_prog) ==
    LET channel == new_prog.channel
        start_str == new_prog.start
        stop_str == new_prog.stop
    IN  IF channel = None \/ start_str = <<>> \/ stop_str = <<>>
        THEN [ok |-> FALSE, programme_list |-> pl, channel_time_ranges |-> ctr]
        ELSE
        LET ctr1 == EnsureKey(ctr, channel)
            new_start_ts == parse_time_str_to_timestamp(start_str)
            new_end_ts == parse_time_str_to_timestamp(stop_str)
        IN  IF new_start_ts = NoneTs \/ new_end_ts = NoneTs
                \/ OverlapsAny(ctr1[channel], new_start_ts, new_end_ts)
            THEN [ok |-> FALSE, programme_list |-> pl, channel_time_ranges |-> ctr1]
            ELSE [ok |-> TRUE,
                  programme_list |-> Append(pl, new_prog),
                  channel_time_ranges |->
                      [ctr1 EXCEPT ![channel] = Append(@, <<new_start_ts, new_end_ts>>)]]

\* add_program_if_no_time_overlap: the returned value and the two containers
\* as the call leaves them (both are mutated in place by the code).
add_program_if_no_time_overlap(pl, ctr, new_prog) ==
    LET channel == new_prog.channel
        start_str == new_prog.start
        stop_str == new_prog.stop
        rejected == [ok |-> FALSE, programme_list |-> pl, channel_time_ranges |-> ctr]
    IN  IF channel = None \/ start_str = <<>> \/ stop_str = <<>> THEN rejected
        ELSE
        LET new_start_ts == parse_time_str_to_timestamp(start_str)
            new_end_ts == parse_time_str_to_timestamp(stop_str)
        IN  IF new_start_ts = NoneTs \/ new_end_ts = NoneTs THEN rejected
            ELSE
            LET ctr1 == EnsureKey(ctr, channel)
            IN  IF OverlapsAny(ctr1[channel], new_start_ts, new_end_ts)
                THEN [ok |-> FALSE, programme_list |-> pl, channel_time_ranges |-> ctr1]
                ELSE [ok |-> TRUE,
                      programme_list |-> Append(pl, new_prog),
                      channel_time_ranges |->
                          [ctr1 EXCEPT ![channel] = Append(@, <<new_start_ts, new_end_ts>>)]]

------------------------------------------------------------------------------
(* Specification SpecDedup: any sequence of calls of the store *)

DedupChannels == {Id("", "5"), Id("unm_", "1")}
DedupTitles == {"t"}
\* Every window for the channel with a local id, and the windows that open at
\* the first instant for the channel with a temporary id.
WellFormedProgs ==
    {p \in [channel : DedupChannels, start : WellFormedTimeStrs,
            stop : WellFormedTimeStrs, title : DedupTitles] :
        p.channel = Id("", "5") \/ p.start = <<0, "+0800">>}

NoProg == [channel |-> None, start |-> <<>>, stop |-> <<>>, title |-> "t"]

\* One program per way of being malformed: no channel, an empty or an
\* unparseable start, an empty or an unparseable stop.
MalformedProgs ==
    LET good == [channel |-> Id("", "5"), start |-> <<0, "+0800">>,
                 stop |-> <<1, "+0800">>, title |-> "t"]
    IN  {[good EXCEPT !.channel = None],
         [good EXCEPT !.start = <<>>], [good EXCEPT !.start = <<BadWord, "+0800">>],
         [good EXCEPT !.stop = <<>>], [good EXCEPT !.stop = <<BadWord, "+0800">>]}

DedupProgs == WellFormedProgs \cup MalformedProgs

StoreEmpty ==
    /\ programme_list = <<>>
    /\ channel_time_ranges = <<>>

CallIdle ==
    /\ last_prog = NoProg
    /\ last_result = "none"

FuzzyIdle ==
    /\ fm_local = <<>>
    /\ fm_ext_names = <<>>
    /\ fm_clean_ext_name = TRUE
    /\ fm_result = None
    /\ fm_pc = "idle"
    /\ fm_calls = 0
    /\ fm_prev_result = None

CleanIdle ==
    /\ cn_raw_name = <<>>
    /\ cn_prev = <<>>
    /\ cn_result = <<>>
    /\ cn_calls = -1

CacheIdle ==
    /\ cache_file = Absent
    /\ old_cache_file = Absent
    /\ dc_entry = Absent
    /\ dc_outcomes = <<>>
    /\ dc_result = "none"
    /\ dc_last_body = Absent
    /\ dc_calls = -1

EscapeIdle ==
    /\ hs_s = <<>>
    /\ hs_result = <<>>
    /\ hs_pc = "idle"

NoDocument == [channels |-> <<>>, programmes |-> <<>>]

MainIdle ==
    /\ pc = "idle"
    /\ source_idx = 0
    /\ unmatched_bjcul_channels = <<>>
    /\ pending_channels = <<>>
    /\ temp_num_counter = 1
    /\ channel_has_official_prog = {}
    /\ channel_has_external_single = {}
    /\ channel_has_external_multi = {}
    /\ ext_id_mapping = <<>>
    /\ ext_channel_name_to_final_id = <<>>
    /\ ext_final_id_to_info = <<>>
    /\ all_external_programs = <<>>
    /\ global_final_unmatched_channels = <<>>
    /\ full_channel_info = <<>>
    /\ epg_lite = NoDocument
    /\ epg_full = NoDocument
    /\ config = [PLAYLIST_FORMAT |-> "zz", ENABLE_EXTERNAL_EPG |-> TRUE]
    /\ io = <<>>

InitDedup ==
    StoreEmpty /\ CallIdle /\ FuzzyIdle /\ CleanIdle /\ MainIdle /\ CacheIdle /\ EscapeIdle

CallAdd ==
    /\ Len(programme_list) < MaxStored
    /\ \E new_prog \in DedupProgs :
        LET r == add_program_if_no_time_overlap(programme_list, channel_time_ranges, new_prog)
        IN  /\ programme_list' = r.programme_list
            /\ channel_time_ranges' = r.channel_time_ranges
            /\ last_prog' = new_prog
            /\ last_result' = IF r.ok THEN "True" ELSE "False"
    /\ UNCHANGED <<utilVars, fuzzyVars, cleanVars, mainVars>>

NextDedup == CallAdd

SpecDedup == InitDedup /\ [][NextDedup]_vars

------------------------------------------------------------------------------
(* Strings: a name is a sequence of one-character strings *)

WhitespaceChars == {" ", "Tab", "NL"}
SeparatorChars == {"-", "_", "(", ")"}
DigitChars == {"0", "1", "2", "3", "4", "5", "6", "7", "8", "9"}

\* str.upper() on the letters the patterns mention (re.IGNORECASE).
Upper(c) ==
    CASE c = "k" -> "K" [] c = "s" -> "S" [] c = "d" -> "D"
      [] c = "r" -> "R" [] c = "h" -> "H" [] OTHER -> c

\* s[i:].startswith(sub), i counted from 1.
StartsWithAt(s, sub, i) ==
    /\ i >= 1 /\ i + Len(sub) - 1 <= Len(s)
    /\ \A k \in 1 .. Len(sub) : s[i + k - 1] = sub[k]

StartsWithAtIgnoreCase(s, sub, i) ==
    /\ i >= 1 /\ i + Len(sub) - 1 <= Len(s)
    /\ \A k \in 1 .. Len(sub) : Upper(s[i + k - 1]) = Upper(sub[k])

\* sub in s
Contains(s, sub) == \E i \in 1 .. (Len(s) - Len(sub) + 1) : StartsWithAt(s, sub, i)

\* s.replace(c, "") for a one-character c
RemoveChar(s, c) == SelectSeq(s, LAMBDA x : x # c)

\* s.strip()
Strip(s) ==
    LET keep == {i \in 1 .. Len(s) : s[i] \notin WhitespaceChars}
    IN  IF keep = {} THEN <<>>
        ELSE LET lo == CHOOSE i \in keep : \A j \in keep : i <= j
                 hi == CHOOSE i \in keep : \A j \in keep : j <= i
             IN  SubSeq(s, lo, hi)

\* re.sub(r"\s+", "", s)
RemoveWhitespace(s) == SelectSeq(s, LAMBDA x : x \notin WhitespaceChars)

------------------------------------------------------------------------------
(* clean_channel_name *)

KEEP_4K_NAMES ==
    { <<"C", "C", "T", "V", "4", "K">>, <<"Ai", "Shang", "4", "K">>,
      <<"4", "K", "Chao", "Qing">> }

\* The keys of the first test of clean_channel_name.
Keep4KKeys ==
    { <<"C", "C", "T", "V", "4", "K">>, <<"4", "K", "Chao", "Gao", "Qing">>,
      <<"Ai", "Shang", "4", "K">> }

\* The alternatives (4K|SDR|HDR|<chao qing>) of suffix_pattern.
SuffixTokens ==
    << <<"4", "K">>, <<"S", "D", "R">>, <<"H", "D", "R">>, <<"Chao", "Qing">> >>

\* \s* from position i: the position after the run of whitespace.
RECURSIVE SkipWhitespace(_, _)
SkipWhitespace(s, i) ==
    IF i <= Len(s) /\ s[i] \in WhitespaceChars THEN SkipWhitespace(s, i + 1) ELSE i

\* [-_()]? at position i: the position after the separator, if there is one.
SkipSeparator(s, i) == IF i <= Len(s) /\ s[i] \in SeparatorChars THEN i + 1 ELSE i

\* (4K|SDR|HDR|<chao qing>) at position c, case ignored: the position after
\* the token, or 0 when none of them is there.
SuffixTokenEnd(s, c) ==
    LET hits == {t \in 1 .. Len(SuffixTokens) : StartsWithAtIgnoreCase(s, SuffixTokens[t], c)}
    IN  IF hits = {} THEN 0
        ELSE c + Len(SuffixTokens[CHOOSE t \in hits : \A u \in hits : t <= u])

\* One repetition \s*[-_()]?\s*(4K|SDR|HDR|<chao qing>) from position i: the
\* position after it, or 0 when it does not match there.
SuffixUnitEnd(s, i) ==
    SuffixTokenEnd(s, SkipWhitespace(s, SkipSeparator(s, SkipWhitespace(s, i))))

\* $ without re.MULTILINE: the end of the string, or just before a final newline.
AtDollar(s, p) == p = Len(s) + 1 \/ (p = Len(s) /\ s[p] = "NL")

\* Greedy repetition: q is where the match ends when more repetitions follow
\* the one ending at p (0 if they lead to no match); else the match ends at p
\* if $ holds there.
LastDollar(s, p, q) == IF q # 0 THEN q ELSE IF AtDollar(s, p) THEN p ELSE 0

\* The end of the match of (unit)+$ that starts at i, or 0 when there is no
\* match at i.
RECURSIVE SuffixMatchEnd(_, _)
SuffixMatchAfter(s, p) == IF p = 0 THEN 0 ELSE LastDollar(s, p, SuffixMatchEnd(s, p))
SuffixMatchEnd(s, i) == SuffixMatchAfter(s, SuffixUnitEnd(s, i))

\* The leftmost position at which suffix_pattern matches, or 0.
SuffixMatchStart(s) ==
    LET starts == {i \in 1 .. Len(s) : SuffixMatchEnd(s, i) # 0}
    IN  IF starts = {} THEN 0 ELSE CHOOSE k \in starts : \A j \in starts : k <= j

\* s without the match that starts at i (s itself when i = 0).
CutMatch(s, i) ==
    IF i = 0 THEN s ELSE SubSeq(s, 1, i - 1) \o SubSeq(s, SuffixMatchEnd(s, i), Len(s))

\* re.sub(suffix_pattern, "", s, flags=re.IGNORECASE): the leftmost match is
\* cut out; what follows it (at most a final newline) cannot match again.
StripSuffixTokens(s) == CutMatch(s, SuffixMatchStart(s))

clean_channel_name(raw_name) ==
    IF raw_name = <<>> THEN <<>>
    ELSE IF Contains(raw_name, <<"4", "K">>)
            /\ \E key \in Keep4KKeys : Contains(raw_name, key)
    THEN RemoveChar(RemoveChar(raw_name, "-"), " ")
    ELSE IF raw_name \in KEEP_4K_NAMES THEN raw_name
    ELSE RemoveWhitespace(Strip(StripSuffixTokens(RemoveChar(RemoveChar(raw_name, "-"), " "))))

------------------------------------------------------------------------------
(* Specification SpecClean: clean_channel_name applied to a raw name, then *)
(* to what it returned                                                     *)

\* The characters raw names are made of: a letter, the characters of the
\* quality token "4K" in both cases, the separators the function removes or
\* the pattern mentions, and the three kinds of whitespace.
CleanChars == {"A", "4", "K", "k", "-", "_", " ", "Tab", "NL"}

\* The sequences of at most n elements of S.
RECURSIVE SeqsUpTo(_, _)
SeqsUpTo(S, n) ==
    IF n = 0 THEN {<<>>}
    ELSE LET shorter == SeqsUpTo(S, n - 1)
         IN  shorter \cup {Append(l, x) : l \in {k \in shorter : Len(k) = n - 1}, x \in S}

\* Raw names: the short sequences of CleanChars, and the names of the 4K
\* channels the function keeps.
CleanRawNames == SeqsUpTo(CleanChars, MaxNameLen) \cup KEEP_4K_NAMES \cup Keep4KKeys

InitClean ==
    /\ StoreEmpty /\ CallIdle /\ FuzzyIdle /\ MainIdle /\ CacheIdle /\ EscapeIdle
    /\ cn_raw_name \in CleanRawNames
    /\ cn_prev = <<>>
    /\ cn_result = <<>>
    /\ cn_calls = 0

\* The first call cleans the raw name, each later call what the call before
\* it returned.
CallClean ==
    /\ cn_calls \in 0 .. (MaxCleanCalls - 1)
    /\ cn_result' = clean_channel_name(IF cn_calls = 0 THEN cn_raw_name ELSE cn_result)
    /\ cn_prev' = cn_result
    /\ cn_calls' = cn_calls + 1
    /\ UNCHANGED <<utilVars, cn_raw_name, storeVars, callVars, fuzzyVars, mainVars>>

NextClean == CallClean

SpecClean == InitClean /\ [][NextClean]_vars

------------------------------------------------------------------------------
(* fuzzy_match *)

CCTV == <<"C", "C", "T", "V">>
CGTN == <<"C", "G", "T", "N">>
JiLu == <<"Ji", "Lu">>
YingWen == <<"Ying", "Wen">>
OuZhou == <<"Ou", "Zhou">>
MeiZhou == <<"Mei", "Zhou">>
Marker4K == <<"4", "K">>

\* \d+ from position i: the position after the run of digits.
RECURSIVE SkipDigits(_, _)
SkipDigits(s, i) ==
    IF i <= Len(s) /\ s[i] \in DigitChars THEN SkipDigits(s, i + 1) ELSE i

\* \d+\+? matched from position i, e being the end of the run of digits: the
\* text matched, <<>> when there is no digit at i.
DigitsTag(s, i, e) ==
    IF e = i THEN <<>>
    ELSE IF e <= Len(s) /\ s[e] = "+" THEN SubSeq(s, i, e) ELSE SubSeq(s, i, e - 1)

\* group(1) of CCTV(4K|\d+\+?) matched at position i, or <<>> when the
\* pattern does not match there.
CctvTagAt(s, i) ==
    IF ~StartsWithAt(s, CCTV, i) THEN <<>>
    ELSE IF StartsWithAt(s, Marker4K, i + 4) THEN Marker4K
    ELSE DigitsTag(s, i + 4, SkipDigits(s, i + 4))

\* The leftmost position at which cctv_pattern matches, or 0.
CctvMatchStart(s) ==
    LET hits == {i \in 1 .. Len(s) : CctvTagAt(s, i) # <<>>}
    IN  IF hits = {} THEN 0 ELSE CHOOSE i \in hits : \A j \in hits : i <= j

\* cctv_pattern.search(s).group(1) if cctv_pattern.search(s) else None
\* (None is <<>>: a tag is never empty).
TagAtOrNone(s, i) == IF i = 0 THEN <<>> ELSE CctvTagAt(s, i)
CctvTag(s) == TagAtOrNone(s, CctvMatchStart(s))

\* ext_clean of a candidate name.
ExtClean(ext_name, clean_ext_name) ==
    IF clean_ext_name THEN clean_channel_name(ext_name)
    ELSE RemoveChar(Strip(ext_name), " ")

\* The two tests of the composite-keyword loop: either branch returns the
\* candidate.
CompositeHit(ext_clean) ==
    \/ (Contains(ext_clean, CGTN) /\ Contains(ext_clean, JiLu) /\ Contains(ext_clean, YingWen))
    \/ (Contains(ext_clean, CGTN) /\ Contains(ext_clean, JiLu))

\* The loop of the composite-keyword rule: the place of the first candidate,
\* in list order, that either test accepts, or 0.
CompositeMatch(ext_names, clean_ext_name) ==
    LET hits == {i \in 1 .. Len(ext_names) :
                    CompositeHit(ExtClean(ext_names[i], clean_ext_name))}
    IN  IF hits = {} THEN 0 ELSE CHOOSE i \in hits : \A j \in hits : i <= j

\* The filter of the candidate loop: a candidate whose cleaned name holds
\* "4K" is dropped unless the local channel is a 4K one.
KeepCandidate(local_is_4k, ext_clean) ==
    ~(~local_is_4k /\ Contains(ext_clean, Marker4K))

\* One entry of ext_candidate.
Candidate(ext_name, ext_clean) ==
    [clean |-> ext_clean, tag |-> CctvTag(ext_clean), original |-> ext_name,
     len |-> Len(ext_clean)]

\* ext_candidate: the candidates kept by the filter, in list order.
ExtCandidates(ext_names, clean_ext_name, local_is_4k) ==
    SelectSeq([i \in 1 .. Len(ext_names) |->
                  Candidate(ext_names[i], ExtClean(ext_names[i], clean_ext_name))],
              LAMBDA ext : KeepCandidate(local_is_4k, ext.clean))

\* local_is_4k
LocalIs4K(local_clean_name) ==
    Contains(local_clean_name, CCTV \o Marker4K) \/ local_clean_name \in KEEP_4K_NAMES

\* matched[0] of a list taken in list order; None when the list is empty.
FirstOf(matched) == IF matched = <<>> THEN None ELSE matched[1].original

\* A variant that skips the sort.
ShortestFirst_unsorted(matched) == IF matched = <<>> THEN None ELSE matched[1].original

\* matched.sort(key=len); matched[0]: the sort is stable, so this is the
\* first element of minimal len. None when the list is empty.
ShortestFirst(matched) ==
    IF matched = <<>> THEN None
    ELSE matched[CHOOSE i \in 1 .. Len(matched) :
                    /\ \A j \in 1 .. Len(matched) : matched[i].len <= matched[j].len
                    /\ \A j \in 1 .. (i - 1) : matched[j].len > matched[i].len].original

\* The result of each rule after the composite one, None when the rule does
\* not apply or finds nothing.
ExactRule(local_clean_name, ext_candidate) ==
    FirstOf(SelectSeq(ext_candidate, LAMBDA ext : local_clean_name = ext.clean))

RegionRule(local_clean_name, ext_candidate) ==
    IF ~Contains(local_clean_name, CCTV \o <<"4">>) THEN None
    ELSE IF Contains(local_clean_name, OuZhou)
    THEN ShortestFirst(SelectSeq(ext_candidate,
             LAMBDA ext : ext.tag = <<"4">> /\ Contains(ext.clean, OuZhou)))
    ELSE IF Contains(local_clean_name, MeiZhou)
    THEN ShortestFirst(SelectSeq(ext_candidate,
             LAMBDA ext : ext.tag = <<"4">> /\ Contains(ext.clean, MeiZhou)))
    ELSE None

Cctv4KRule(local_clean_name, ext_candidate) ==
    IF ~Contains(local_clean_name, CCTV \o Marker4K) THEN None
    ELSE ShortestFirst(SelectSeq(ext_candidate,
             LAMBDA ext : Contains(ext.clean, CCTV \o Marker4K)))

TagRuleFor(local_cctv_tag, ext_candidate) ==
    IF local_cctv_tag = <<>> THEN None
    ELSE ShortestFirst(SelectSeq(ext_candidate, LAMBDA ext : ext.tag = local_cctv_tag))

TagRule(local_clean_name, ext_candidate) ==
    TagRuleFor(CctvTag(local_clean_name), ext_candidate)

IncludeRule(local_clean_name, ext_candidate) ==
    ShortestFirst(SelectSeq(ext_candidate,
        LAMBDA ext : /\ Contains(ext.clean, local_clean_name)
                     /\ ext.len <= Len(local_clean_name) + 10))

NoPlusRule(local_clean_name, ext_candidate) ==
    FirstOf(SelectSeq(ext_candidate,
        LAMBDA ext : RemoveChar(local_clean_name, "+") = RemoveChar(ext.clean, "+")))

\* a if it is a result, else b: the rules are tried in order and the first
\* result is returned.
OrElse(a, b) == IF a # None THEN a ELSE b

\* The rules after the composite one, on the filtered candidates.
Cascade(local_clean_name, ext_candidate) ==
    OrElse(ExactRule(local_clean_name, ext_candidate),
    OrElse(RegionRule(local_clean_name, ext_candidate),
    OrElse(Cctv4KRule(local_clean_name, ext_candidate),
    OrElse(TagRule(local_clean_name, ext_candidate),
    OrElse(IncludeRule(local_clean_name, ext_candidate),
           NoPlusRule(local_clean_name, ext_candidate))))))

\* The composite-keyword rule: the place of the candidate it returns, or 0.
CompositeRule(local_clean_name, ext_names, clean_ext_name) ==
    IF Contains(local_clean_name, CGTN) /\ Contains(local_clean_name, JiLu)
    THEN CompositeMatch(ext_names, clean_ext_name) ELSE 0

CompositeOrCascade(ext_names, composite, cascade) ==
    IF composite # 0 THEN ext_names[composite] ELSE cascade

\* fuzzy_match: the original name of the chosen candidate, or None.
fuzzy_match(local_clean_name, ext_names, clean_ext_name) ==
    IF local_clean_name = <<>> THEN None
    ELSE CompositeOrCascade(ext_names,
            CompositeRule(local_clean_name, ext_names, clean_ext_name),
            Cascade(local_clean_name,
                    ExtCandidates(ext_names, clean_ext_name, LocalIs4K(local_clean_name))))

------------------------------------------------------------------------------
(* Specification SpecFuzzy: one call of fuzzy_match on names of one family *)

Name5 == CCTV \o <<"5">>
Name4 == CCTV \o <<"4">>
Name1 == CCTV \o <<"1">>
BTV == <<"B", "T", "V">>
GaoQing == <<"Gao", "Qing">>

\* Raw local names and candidate names, grouped the way one channel family
\* is listed by the sources.
NameFamilies ==
    << [locals |-> {Name5, Name5 \o <<"+">>, Name1 \o <<" ">> \o <<"H", "D", "R">>},
        candidates |-> {Name5 \o GaoQing, Name5 \o <<"+">>, Name5 \o OuZhou,
                        <<"+">> \o Name5, Name5, Name1 \o <<" ">> \o Marker4K}],
       [locals |-> {Name4 \o OuZhou, Name4 \o MeiZhou, CCTV \o Marker4K, Name4},
        candidates |-> {Name4, Name4 \o OuZhou \o GaoQing, Name4 \o <<" ">> \o MeiZhou,
                        CCTV \o Marker4K, CCTV \o <<"-">> \o Marker4K \o <<"Chao", "Gao", "Qing">>,
                        Name4 \o <<"4", "k">>}],
       [locals |-> {CGTN \o JiLu, BTV, <<"4", "K", "Chao", "Qing">>},
        candidates |-> {CGTN \o JiLu, CGTN \o JiLu \o YingWen, CGTN,
                        BTV \o GaoQing, BTV \o <<"-">> \o Marker4K,
                        <<"4", "K", "Chao", "Qing">>}] >>

\* Lists of at most n names of a set.
RECURSIVE ListsUpTo(_, _)
ListsUpTo(S, n) ==
    IF n = 0 THEN {<<>>}
    ELSE LET shorter == ListsUpTo(S, n - 1)
         IN  shorter \cup {Append(l, x) : l \in {k \in shorter : Len(k) = n - 1}, x \in S}

InitFuzzy ==
    /\ StoreEmpty /\ CallIdle /\ CleanIdle /\ MainIdle /\ CacheIdle /\ EscapeIdle
    /\ \E f \in 1 .. Len(NameFamilies) :
        /\ \E raw_name \in NameFamilies[f].locals : fm_local = clean_channel_name(raw_name)
        /\ fm_ext_names \in ListsUpTo(NameFamilies[f].candidates, MaxCandidates)
    /\ fm_clean_ext_name \in BOOLEAN
    /\ fm_result = None
    /\ fm_pc = "ready"
    /\ fm_calls = 0
    /\ fm_prev_result = None

\* A variant in which the call leaves the caller's list reversed.
ExtNamesAfterCall_reversed(ext_names) ==
    [i \in 1 .. Len(ext_names) |-> ext_names[Len(ext_names) + 1 - i]]

\* The caller's list after a call: fuzzy_match reads ext_names in its two
\* loops and sorts only the lists it builds itself, so the caller's list is
\* as it was.
ExtNamesAfterCall(ext_names) == ext_names

\* A call of fuzzy_match, and further calls with the same arguments: the
\* list is the caller's object, passed by reference.
CallFuzzyMatch ==
    /\ fm_pc \in {"ready", "done"}
    /\ fm_calls < MaxFuzzyCalls
    /\ fm_result' = fuzzy_match(fm_local, fm_ext_names, fm_clean_ext_name)
    /\ fm_ext_names' = ExtNamesAfterCall(fm_ext_names)
    /\ fm_prev_result' = fm_result
    /\ fm_calls' = fm_calls + 1
    /\ fm_pc' = "done"
    /\ UNCHANGED <<utilVars, fm_local, fm_clean_ext_name, storeVars, callVars, cleanVars, mainVars>>

NextFuzzy == CallFuzzyMatch

SpecFuzzy == InitFuzzy /\ [][NextFuzzy]_vars

------------------------------------------------------------------------------
(* epg_main: configuration and the local channels *)

ENABLE_KEEP_OTHER_CHANNELS == TRUE
EXCLUDE_MULTI_SOURCE_CHANNELS == {<<>>}
EXCLUDE_MULTI_SOURCE_CATEGORIES == {"TS-PinDao", "TiYan-PinDao"}
temp_local_num_prefix == "unm_"

\* matched_channels after step 2: the local channels the playlist gives a
\* permanent id, each with a different id. The first one's id looks like an
\* external id.
matched_channels ==
    << [raw_name |-> BTV, category |-> "TS-PinDao", local_num |-> Id("ext_", "1")],
       [raw_name |-> Name1, category |-> "YangShi", local_num |-> Id("", "1")] >>

\* The channels of bjcul.txt the playlist gives no id (type unmatched_id).
UnmatchedIdChannels ==
    << [raw_name |-> Name5, category |-> "TS-PinDao", local_num |-> None],
       [raw_name |-> Name4, category |-> "TiYan-PinDao", local_num |-> None] >>

local_channel_names ==
    {matched_channels[i].raw_name : i \in 1 .. Len(matched_channels)}
        \cup {UnmatchedIdChannels[i].raw_name : i \in 1 .. Len(UnmatchedIdChannels)}

\* The text of a name or of an id, to compare an output id with a native id.
RECURSIVE StrOf(_)
StrOf(chars) == IF chars = <<>> THEN "" ELSE Head(chars) \o StrOf(Tail(chars))
IdText(id) == IF id = None THEN "" ELSE id[1] \o id[2]

------------------------------------------------------------------------------
(* Python dicts that the code iterates: <<key, value>> pairs in insertion order *)

DictKeys(d) == [i \in 1 .. Len(d) |-> d[i][1]]
DictValues(d) == {d[i][2] : i \in 1 .. Len(d)}
DictHas(d, k) == \E i \in 1 .. Len(d) : d[i][1] = k
DictGet(d, k, default) ==
    IF DictHas(d, k) THEN d[CHOOSE i \in 1 .. Len(d) : d[i][1] = k][2] ELSE default
DictSet(d, k, v) ==
    IF DictHas(d, k) THEN [i \in 1 .. Len(d) |-> IF d[i][1] = k THEN <<k, v>> ELSE d[i]]
    ELSE Append(d, <<k, v>>)

------------------------------------------------------------------------------
(* parse_external_epg and the channel rename of a source *)

\* aliases[0] if aliases else cid
MainNameOf(channel) ==
    LET stripped == [j \in 1 .. Len(channel.display_names) |-> Strip(channel.display_names[j])]
        aliases == SelectSeq(stripped, LAMBDA a : a # <<>>)
    IN  IF aliases = <<>> THEN channel.id ELSE aliases[1]

\* The loop over the channel elements: full_channel_info, cid -> main_name.
RECURSIVE ChannelInfoOf(_, _, _)
ChannelInfoOf(channels, i, info) ==
    IF i > Len(channels) THEN info
    ELSE IF channels[i].id = <<>> THEN ChannelInfoOf(channels, i + 1, info)
    ELSE ChannelInfoOf(channels, i + 1, DictSet(info, channels[i].id, MainNameOf(channels[i])))

\* The loop over the programme elements: full_program_info.
ProgramInfoOf(programmes, info) ==
    LET kept == SelectSeq(programmes, LAMBDA p :
                    /\ p.channel # <<>> /\ p.start # <<>> /\ p.stop # <<>>
                    /\ DictHas(info, p.channel))
    IN  [i \in 1 .. Len(kept) |->
            [channel_id |-> kept[i].channel, start |-> kept[i].start,
             stop |-> kept[i].stop, title |-> kept[i].title]]

\* external_epg_map: the programs by native id (official source) or by main name.
RECURSIVE EpgMapOf(_, _, _, _, _)
EpgMapOf(program_info, i, info, is_official, map) ==
    IF i > Len(program_info) THEN map
    ELSE LET prog == program_info[i]
             key == IF is_official THEN prog.channel_id
                    ELSE DictGet(info, prog.channel_id, <<>>)
             entry == [start |-> prog.start, stop |-> prog.stop, title |-> prog.title]
         IN  EpgMapOf(program_info, i + 1, info, is_official,
                      DictSet(map, key, Append(DictGet(map, key, <<>>), entry)))

ParsedOf(info, program_info, is_official) ==
    LET map == EpgMapOf(program_info, 1, info, is_official, <<>>)
    IN  [epg_map |-> map, epg_identifiers |-> DictKeys(map),
         full_channel_info |-> info, full_program_info |-> program_info]

parse_external_epg(epg_data, is_official) ==
    LET info == ChannelInfoOf(epg_data.channels, 1, <<>>)
    IN  ParsedOf(info, ProgramInfoOf(epg_data.programmes, info), is_official)

\* rename_map: old name -> new name, rules with an empty side skipped.
RECURSIVE RenameMapOf(_, _, _)
RenameMapOf(rules, i, map) ==
    IF i > Len(rules) THEN map
    ELSE IF rules[i][1] = <<>> \/ rules[i][2] = <<>> THEN RenameMapOf(rules, i + 1, map)
    ELSE RenameMapOf(rules, i + 1, DictSet(map, Strip(rules[i][1]), Strip(rules[i][2])))

\* new_epg_map: the programs of keys renamed to the same key are joined.
RECURSIVE RenameEpgMap(_, _, _, _)
RenameEpgMap(epg_map, i, rename_map, new_epg_map) ==
    IF i > Len(epg_map) THEN new_epg_map
    ELSE LET new_key == DictGet(rename_map, epg_map[i][1], epg_map[i][1])
         IN  RenameEpgMap(epg_map, i + 1, rename_map,
                          DictSet(new_epg_map, new_key,
                                  DictGet(new_epg_map, new_key, <<>>) \o epg_map[i][2]))

\* new_epg_identifiers: renamed, the first occurrence of each kept.
RECURSIVE RenameIdentifiers(_, _, _, _)
RenameIdentifiers(idents, i, rename_map, new_idents) ==
    IF i > Len(idents) THEN new_idents
    ELSE LET new_ident == DictGet(rename_map, idents[i], idents[i])
         IN  RenameIdentifiers(idents, i + 1, rename_map,
                 IF \E j \in 1 .. Len(new_idents) : new_idents[j] = new_ident
                 THEN new_idents ELSE Append(new_idents, new_ident))

RenameChannelInfo(info, rename_map) ==
    [i \in 1 .. Len(info) |-> <<info[i][1], DictGet(rename_map, info[i][2], info[i][2])>>]

\* The rename block of the source loop, applied when the source has rules.
ApplyRename(parsed, rename_map) ==
    IF rename_map = <<>> THEN parsed
    ELSE [epg_map |-> RenameEpgMap(parsed.epg_map, 1, rename_map, <<>>),
          epg_identifiers |-> RenameIdentifiers(parsed.epg_identifiers, 1, rename_map, <<>>),
          full_channel_info |-> RenameChannelInfo(parsed.full_channel_info, rename_map),
          full_program_info |-> parsed.full_program_info]

------------------------------------------------------------------------------
(* The external channel id allocator *)

\* generate_unique_ext_channel_id: ext_1, ext_2, ... probed until one is free.
generate_unique_ext_channel_id(existing_ids) ==
    LET free == {n \in 1 .. Cardinality(existing_ids) + 1 :
                    Id("ext_", ToString(n)) \notin existing_ids}
    IN  Id("ext_", ToString(CHOOSE n \in free : \A m \in free : n <= m))

\* existing_ids as the source loop collects it before it walks the channels
\* of a source.
ExistingIds(channels, mapping) ==
    {matched_channels[i].local_num : i \in 1 .. Len(matched_channels)}
        \cup {channels[i].local_num : i \in {j \in 1 .. Len(channels) :
                /\ channels[j].local_num # None
                /\ channels[j].local_num[1] = temp_local_num_prefix}}
        \cup DictValues(mapping)

\* A variant of the name lookup that never finds the name.
NameAlreadyAllocated_never(name_to_id, ext_main_name) == FALSE

\* ext_main_name in ext_channel_name_to_final_id
NameAlreadyAllocated(name_to_id, ext_main_name) == DictHas(name_to_id, ext_main_name)

\* The branch that mints an id for a new name.
AllocateNew(acc, ext_raw_cid, ext_main_name, new_ext_id) ==
    [existing_ids |-> acc.existing_ids \cup {new_ext_id},
     ext_id_mapping |-> DictSet(acc.ext_id_mapping, ext_raw_cid, new_ext_id),
     ext_channel_name_to_final_id |->
         DictSet(acc.ext_channel_name_to_final_id, ext_main_name, new_ext_id),
     ext_final_id_to_info |->
         DictSet(acc.ext_final_id_to_info, new_ext_id,
                 [original_id |-> ext_raw_cid, main_name |-> ext_main_name])]

\* The loop over full_channel_info of one source.
RECURSIVE AllocateChannels(_, _, _)
AllocateChannels(info, i, acc) ==
    IF i > Len(info) THEN acc
    ELSE IF NameAlreadyAllocated(acc.ext_channel_name_to_final_id, Strip(info[i][2]))
    THEN AllocateChannels(info, i + 1,
            [acc EXCEPT !.ext_id_mapping =
                DictSet(@, info[i][1],
                        DictGet(acc.ext_channel_name_to_final_id, Strip(info[i][2]), None))])
    ELSE AllocateChannels(info, i + 1,
            AllocateNew(acc, info[i][1], Strip(info[i][2]),
                        generate_unique_ext_channel_id(acc.existing_ids)))

\* The loop over full_program_info: the programs appended to
\* all_external_programs under the output id of their channel.
ExternalProgramsOf(program_info, mapping) ==
    LET kept == SelectSeq(program_info, LAMBDA p : DictGet(mapping, p.channel_id, None) # None)
    IN  [i \in 1 .. Len(kept) |->
            [channel |-> DictGet(mapping, kept[i].channel_id, None),
             start |-> kept[i].start, stop |-> kept[i].stop, title |-> kept[i].title]]

------------------------------------------------------------------------------
(* The loop over the pending channels of one source *)

\* A variant that sees no channel as a single-contribution one.
is_exclude_multi_never(channel) == FALSE

is_exclude_multi(channel) ==
    \/ channel.raw_name \in EXCLUDE_MULTI_SOURCE_CHANNELS
    \/ channel.category \in EXCLUDE_MULTI_SOURCE_CATEGORIES

\* The loop over ext_progs: each program goes through the store under local_num.
RECURSIVE AddPrograms(_, _, _, _)
AddPrograms(ext_progs, i, local_num, r) ==
    IF i > Len(ext_progs) THEN r
    ELSE LET a == add_program_if_no_time_overlap(r.programme_list, r.channel_time_ranges,
                      [channel |-> local_num, start |-> ext_progs[i].start,
                       stop |-> ext_progs[i].stop, title |-> ext_progs[i].title])
         IN  AddPrograms(ext_progs, i + 1, local_num,
                 [programme_list |-> a.programme_list,
                  channel_time_ranges |-> a.channel_time_ranges,
                  new_prog_count |-> r.new_prog_count + (IF a.ok THEN 1 ELSE 0)])

\* A variant that drops a single-contribution channel whatever the source
\* gave it.
StaysPending_multi_only(exclude, channel_matched) == ~exclude

\* The tail of the loop body: the channel goes to next_pending_channels
\* unless it is a single-contribution one that had a program accepted.
StaysPending(exclude, channel_matched) == ~exclude \/ ~channel_matched

\* What a channel with accepted programs leaves behind: the satisfied sets,
\* global_matched_channels, its STEP4_MATCH_SUCCESS line and, from the tail
\* of the loop body, its place in next_pending_channels.
Settle(acc, c, local_num, added, got_progs, in_global_matched) ==
    LET exclude == is_exclude_multi(acc.channels[c])
        channel_matched == got_progs /\ added.new_prog_count > 0
    IN  [acc EXCEPT
            !.programme_list = added.programme_list,
            !.channel_time_ranges = added.channel_time_ranges,
            !.single = IF channel_matched /\ exclude THEN @ \cup {local_num} ELSE @,
            !.multi = IF channel_matched /\ ~exclude THEN @ \cup {local_num} ELSE @,
            !.global_matched = IF in_global_matched \/ channel_matched THEN Append(@, c) ELSE @,
            !.match_success = IF channel_matched THEN Append(@, local_num) ELSE @,
            !.next_pending = IF StaysPending(exclude, channel_matched) THEN Append(@, c) ELSE @]

NothingAdded(acc) ==
    [programme_list |-> acc.programme_list,
     channel_time_ranges |-> acc.channel_time_ranges, new_prog_count |-> 0]

\* The branch of an official source for a channel with a permanent id: the
\* programs the source files under that id.
OfficialBranch(acc, c, local_num, parsed) ==
    LET hits == {i \in 1 .. Len(parsed.epg_map) : StrOf(parsed.epg_map[i][1]) = IdText(local_num)}
    IN  IF hits = {} THEN Settle(acc, c, local_num, NothingAdded(acc), FALSE, FALSE)
        ELSE Settle(acc, c, local_num,
                    AddPrograms(parsed.epg_map[CHOOSE i \in hits : TRUE][2], 1, local_num,
                                NothingAdded(acc)),
                    TRUE, FALSE)

\* A variant that leaves the counter of the temporary ids where it is.
NextTempCounter_stuck(counter) == counter

\* temp_num_counter += 1
NextTempCounter(counter) == counter + 1

\* The branch that matches by name; a channel without an id gets a
\* temporary one when the matched name has programs.
FuzzyBranch(acc, c, local_num, parsed, match_ext_name) ==
    IF match_ext_name = None \/ ~DictHas(parsed.epg_map, match_ext_name)
        \/ DictGet(parsed.epg_map, match_ext_name, <<>>) = <<>>
    THEN Settle(acc, c, local_num, NothingAdded(acc), FALSE, FALSE)
    ELSE IF local_num # None
    THEN Settle(acc, c, local_num,
                AddPrograms(DictGet(parsed.epg_map, match_ext_name, <<>>), 1, local_num,
                            NothingAdded(acc)),
                TRUE, TRUE)
    ELSE Settle([acc EXCEPT !.temp_num_counter = NextTempCounter(@),
                            !.channels[c].local_num =
                                Id(temp_local_num_prefix, ToString(acc.temp_num_counter))],
                c, Id(temp_local_num_prefix, ToString(acc.temp_num_counter)),
                AddPrograms(DictGet(parsed.epg_map, match_ext_name, <<>>), 1,
                            Id(temp_local_num_prefix, ToString(acc.temp_num_counter)),
                            NothingAdded(acc)),
                TRUE, TRUE)

\* skip_current_source
SkipCurrentSource(channel, official_ids, single) ==
    \/ channel.local_num \in official_ids
    \/ is_exclude_multi(channel) /\ channel.local_num \in single

\* One iteration of the loop over pending_channels, for the channel at
\* position c of unmatched_bjcul_channels.
ProcessChannel(acc, c, epg_source, parsed, official_ids) ==
    LET channel == acc.channels[c]
    IN  IF SkipCurrentSource(channel, official_ids, acc.single)
        THEN IF ~is_exclude_multi(channel)
             THEN [acc EXCEPT !.next_pending = Append(@, c)] ELSE acc
        ELSE IF /\ epg_source.is_official
                /\ channel.local_num # None
                /\ channel.local_num[1] # temp_local_num_prefix
        THEN OfficialBranch(acc, c, channel.local_num, parsed)
        ELSE FuzzyBranch(acc, c, channel.local_num, parsed,
                         fuzzy_match(channel.clean_name, parsed.epg_identifiers,
                                     epg_source.clean_name))

RECURSIVE ProcessPending(_, _, _, _, _, _)
ProcessPending(pending, i, acc, epg_source, parsed, official_ids) ==
    IF i > Len(pending) THEN acc
    ELSE ProcessPending(pending, i + 1,
                        ProcessChannel(acc, pending[i], epg_source, parsed, official_ids),
                        epg_source, parsed, official_ids)

\* The channels of acc.global_matched leave global_final_unmatched_channels.
StillUnmatched(unmatched, global_matched) ==
    SelectSeq(unmatched, LAMBDA c : \A j \in 1 .. Len(global_matched) : global_matched[j] # c)

------------------------------------------------------------------------------
(* Step 5: the two documents *)

\* The order of two ids as strings. The ids of the model are a digit, or a
\* prefix ext_ or unm_ and a digit: "1" < "ext_1" < "ext_2" < "unm_1".
DigitOf(text) == CHOOSE n \in 0 .. 9 : ToString(n) = text
ChannelRank(id) ==
    (IF id[1] = "" THEN 0 ELSE IF id[1] = "ext_" THEN 10 ELSE 20) + DigitOf(id[2])

\* key=lambda x: (x["channel"], x["start"])
SortKeyLess(p, q) ==
    \/ ChannelRank(p.channel) < ChannelRank(q.channel)
    \/ ChannelRank(p.channel) = ChannelRank(q.channel) /\ p.start[1] < q.start[1]

\* sorted(): stable, so a program goes behind the ones whose key is not greater.
InsertSorted(sorted, p) ==
    LET before == {i \in 1 .. Len(sorted) : ~SortKeyLess(p, sorted[i])}
        k == IF before = {} THEN 0 ELSE CHOOSE i \in before : \A j \in before : j <= i
    IN  SubSeq(sorted, 1, k) \o <<p>> \o SubSeq(sorted, k + 1, Len(sorted))

RECURSIVE SortedProgs(_, _, _)
SortedProgs(progs, i, sorted) ==
    IF i > Len(progs) THEN sorted
    ELSE SortedProgs(progs, i + 1, InsertSorted(sorted, progs[i]))

\* The loop with seen_progs: programs without channel, start or title are
\* left out, and so is a program whose (channel, start, title) was written.
RECURSIVE WrittenProgs(_, _, _)
WrittenProgs(sorted, i, written) ==
    IF i > Len(sorted) THEN written
    ELSE IF \/ sorted[i].channel = None \/ sorted[i].start = <<>> \/ sorted[i].title = ""
            \/ \E j \in 1 .. Len(written) :
                    /\ written[j].channel = sorted[i].channel
                    /\ written[j].start = sorted[i].start
                    /\ written[j].title = sorted[i].title
    THEN WrittenProgs(sorted, i + 1, written)
    ELSE WrittenProgs(sorted, i + 1, Append(written, sorted[i]))

\* The channel elements of the lite document: the channels with a permanent
\* id, then the channels with a temporary id.
LiteChannels(channels) ==
    [i \in 1 .. Len(matched_channels) |->
        [id |-> matched_channels[i].local_num, display_name |-> Strip(matched_channels[i].raw_name)]]
    \o LET temp == SelectSeq(channels, LAMBDA ch :
                       ch.local_num # None /\ ch.local_num[1] = temp_local_num_prefix)
       IN  [i \in 1 .. Len(temp) |->
               [id |-> temp[i].local_num, display_name |-> Strip(temp[i].raw_name)]]

\* The loop over ext_channel_name_to_final_id that adds the external
\* channels to the full document.
RECURSIVE FullChannels(_, _, _, _)
FullChannels(name_to_id, i, id_to_info, chans) ==
    IF i > Len(name_to_id) THEN chans
    ELSE IF name_to_id[i][1] \in local_channel_names
    THEN FullChannels(name_to_id, i + 1, id_to_info, chans)
    ELSE LET existing_channel_ids == {chans[j].id : j \in 1 .. Len(chans)}
             ext_final_id == IF name_to_id[i][2] \in existing_channel_ids
                             THEN generate_unique_ext_channel_id(existing_channel_ids)
                             ELSE name_to_id[i][2]
         IN  IF ~DictHas(id_to_info, ext_final_id)
             THEN FullChannels(name_to_id, i + 1, id_to_info, chans)
             ELSE FullChannels(name_to_id, i + 1, id_to_info,
                     Append(chans, [id |-> ext_final_id, display_name |-> name_to_id[i][1]]))

LiteDocument(channels, progs) ==
    [channels |-> LiteChannels(channels),
     programmes |-> WrittenProgs(SortedProgs(progs, 1, <<>>), 1, <<>>)]

FullDocumentOf(chans, progs) ==
    LET valid_progs_full == SelectSeq(progs, LAMBDA p :
                                \E j \in 1 .. Len(chans) : chans[j].id = p.channel)
    IN  [channels |-> chans,
         programmes |-> WrittenProgs(SortedProgs(valid_progs_full, 1, <<>>), 1, <<>>)]

FullDocument(channels, progs, ext_progs, name_to_id, id_to_info) ==
    FullDocumentOf(FullChannels(name_to_id, 1, id_to_info, LiteChannels(channels)),
                   progs \o ext_progs)

------------------------------------------------------------------------------
(* Specification Spec: one run of epg_main *)

\* FORMAT_MAPPING: its keys.
FORMAT_MAPPING == {"zz", "raw"}

\* The settings of EPG_CONFIG a run is checked for: a playlist format that
\* is or is not a key of FORMAT_MAPPING, and the master switch of the
\* external sources.
Configs == [PLAYLIST_FORMAT : {"zz", "m3u"}, ENABLE_EXTERNAL_EPG : BOOLEAN]

\* A variant that takes every format as a supported one.
FormatSupported_any(cfg) == TRUE

\* config['PLAYLIST_FORMAT'] in config['FORMAT_MAPPING']
FormatSupported(cfg) == cfg.PLAYLIST_FORMAT \in FORMAT_MAPPING

\* What the run does to the outside, in order: files it opens, URLs it
\* downloads, lines it writes to the log, documents it writes. source is the
\* name of an entry of EXTERNAL_EPG_SOURCES (0 when none is involved),
\* channel the output id the line is about (None when there is none).
Event(op, tag, source, channel) ==
    [op |-> op, tag |-> tag, source |-> source, channel |-> channel]

\* The source at each position of the list of enabled sources, as the
\* configuration fixes it. The first one has a rename rule, the second one
\* is an official one, the others are plain.
SourceSettings(position) ==
    IF position = 1
    THEN [is_official |-> FALSE, clean_name |-> TRUE, channel_rename |-> << <<Name1, CGTN>> >>]
    ELSE IF position = 2
    THEN [is_official |-> TRUE, clean_name |-> TRUE, channel_rename |-> <<>>]
    ELSE [is_official |-> FALSE, clean_name |-> FALSE, channel_rename |-> <<>>]

\* EXTERNAL_EPG_SOURCES: each enabled entry is followed by a disabled one
\* with the same settings. An entry's name is its place in the list.
EXTERNAL_EPG_SOURCES ==
    [k \in 1 .. (2 * MaxSources) |->
        [name |-> k, enabled |-> (k % 2 = 1),
         is_official |-> SourceSettings((k + 1) \div 2).is_official,
         clean_name |-> SourceSettings((k + 1) \div 2).clean_name,
         channel_rename |-> SourceSettings((k + 1) \div 2).channel_rename]]

\* A variant that takes the entries of the list whatever their flag says.
enabled_sources_unfiltered(position) == EXTERNAL_EPG_SOURCES[position]

\* enabled_sources = [s for s in EXTERNAL_EPG_SOURCES if s.get("enabled", True)],
\* at a position of the loop.
enabled_sources(position) == SelectSeq(EXTERNAL_EPG_SOURCES, LAMBDA s : s.enabled)[position]

\* The channel elements a source's document may hold: a native id and one
\* display name. A document holds one of them, or two with different ids.
ExtChannels ==
    {[id |-> <<"1">>, display_names |-> <<Name5>>],
     [id |-> <<"1">>, display_names |-> <<CGTN>>],
     [id |-> <<"c", "2">>, display_names |-> <<CGTN>>],
     [id |-> <<"c", "2">>, display_names |-> <<Name1>>]}
ExtChannelLists == {<<ch>> : ch \in ExtChannels}
TwoChannelList ==
    << [id |-> <<"1">>, display_names |-> <<CGTN>>],
       [id |-> <<"c", "2">>, display_names |-> <<Name1>>] >>
ExtWindows == {<<0, 1>>, <<1, 2>>, <<0, 2>>}

\* A document: its channels, and one programme per channel, all on one window.
DocumentOf(channels, window) ==
    [channels |-> channels,
     programmes |-> [i \in 1 .. Len(channels) |->
                        [channel |-> channels[i].id, start |-> <<window[1], "+0800">>,
                         stop |-> <<window[2], "+0800">>, title |-> "t"]]]
\* A document whose one programme has a start strptime rejects.
MalformedDocument ==
    DocumentOf(<< [id |-> <<"1">>, display_names |-> <<Name5>>] >>, <<BadWord, 1>>)
\* Documents that offer the second channel without an id, alone and after
\* the first one.
SecondChannelDocuments ==
    {DocumentOf(<< [id |-> <<"c", "2">>, display_names |-> <<Name4>>] >>, <<0, 1>>),
     DocumentOf(<< [id |-> <<"1">>, display_names |-> <<Name5>>],
                   [id |-> <<"c", "2">>, display_names |-> <<Name4>>] >>, <<1, 2>>)}
SourceDocuments ==
    {DocumentOf(channels, window) : channels \in ExtChannelLists, window \in ExtWindows}
        \cup {DocumentOf(TwoChannelList, <<0, 1>>)}
        \cup {MalformedDocument} \cup SecondChannelDocuments

\* Documents parse_external_epg gets no program from: bytes that are no XML,
\* and a document with a channel and no programme.
EmptyDocuments ==
    {NoDocument,
     [channels |-> << [id |-> <<"c", "2">>, display_names |-> <<CGTN>>] >>, programmes |-> <<>>]}

\* Step 3 for the matched channels whose position is not in failed: one
\* official program each.
OfficialProgs == << [start |-> <<0, "+0800">>, stop |-> <<1, "+0800">>, title |-> "t"] >>
OfficialFailures == {{}, {2}}
RECURSIVE OfficialEpg(_, _, _)
OfficialEpg(i, failed, r) ==
    IF i > Len(matched_channels) THEN r
    ELSE IF i \in failed THEN OfficialEpg(i + 1, failed, r)
    ELSE OfficialEpg(i + 1, failed, AddPrograms(OfficialProgs, 1, matched_channels[i].local_num, r))

\* unmatched_bjcul_channels after step 3: the channels without an id, then
\* the matched channels without official programs.
ChannelDict(ch) ==
    [raw_name |-> ch.raw_name, clean_name |-> clean_channel_name(ch.raw_name),
     category |-> ch.category, local_num |-> ch.local_num]
UnmatchedAfterStep3(failed) ==
    [i \in 1 .. Len(UnmatchedIdChannels) |-> ChannelDict(UnmatchedIdChannels[i])]
    \o LET fail == SelectSeq([i \in 1 .. Len(matched_channels) |-> i], LAMBDA i : i \in failed)
       IN  [k \in 1 .. Len(fail) |-> ChannelDict(matched_channels[fail[k]])]

\* global_final_unmatched_channels before the branch of the master switch
\* binds it: a local name without a value (no list of positions holds 0).
Unbound == <<0>>

\* The files and URLs steps 1 to 3 read: the two channel lists, then the
\* official schedule of each matched channel.
Step13Events ==
    <<Event("open", "bjcul", 0, None), Event("open", "playlist", 0, None)>>
        \o [i \in 1 .. Len(matched_channels) |->
               Event("download", "official", 0, matched_channels[i].local_num)]

\* The state after step 3 and the initialisation of step 4, official being
\* what the official schedules put in the store.
AfterStep3(failed, official) ==
    /\ programme_list' = official.programme_list
    /\ channel_time_ranges' = official.channel_time_ranges
    /\ channel_has_official_prog' =
           {matched_channels[i].local_num : i \in (1 .. Len(matched_channels)) \ failed}
    /\ unmatched_bjcul_channels' = UnmatchedAfterStep3(failed)
    /\ pending_channels' = [i \in 1 .. Len(UnmatchedAfterStep3(failed)) |-> i]
    /\ global_final_unmatched_channels' =
           IF config.ENABLE_EXTERNAL_EPG
           THEN [i \in 1 .. Len(UnmatchedAfterStep3(failed)) |-> i]
           ELSE Unbound

\* The state epg_main starts from, under any of the settings.
Init ==
    /\ StoreEmpty /\ CallIdle /\ FuzzyIdle /\ CleanIdle /\ CacheIdle /\ EscapeIdle
    /\ pc = "start"
    /\ config \in Configs
    /\ io = <<>>
    /\ source_idx = 0
    /\ unmatched_bjcul_channels = <<>>
    /\ pending_channels = <<>>
    /\ global_final_unmatched_channels = Unbound
    /\ channel_has_official_prog = {}
    /\ temp_num_counter = 1
    /\ channel_has_external_single = {}
    /\ channel_has_external_multi = {}
    /\ ext_id_mapping = <<>>
    /\ ext_channel_name_to_final_id = <<>>
    /\ ext_final_id_to_info = <<>>
    /\ all_external_programs = <<>>
    /\ full_channel_info = <<>>
    /\ epg_lite = NoDocument
    /\ epg_full = NoDocument

\* The playlist format is not a key of FORMAT_MAPPING: the error is logged
\* and epg_main returns.
ConfigError ==
    /\ pc = "start"
    /\ ~FormatSupported(config)
    /\ io' = Append(io, Event("log", "FATAL", 0, None))
    /\ pc' = "returned"
    /\ UNCHANGED <<utilVars, config, source_idx, storeVars, callVars, fuzzyVars, cleanVars, pendingVars,
                   allocVars, outputVars>>

\* Steps 1 to 3 and the initialisation of step 4: the channel lists are
\* read, the official schedule of each matched channel is downloaded, the
\* channels without official programs become the pending ones.
Steps1To3 ==
    /\ pc = "start"
    /\ FormatSupported(config)
    /\ \E failed \in OfficialFailures :
        AfterStep3(failed, OfficialEpg(1, failed,
            [programme_list |-> <<>>, channel_time_ranges |-> <<>>, new_prog_count |-> 0]))
    /\ io' = io \o Step13Events
    /\ pc' = "sources"
    /\ UNCHANGED <<utilVars, config, source_idx, temp_num_counter, channel_has_external_single,
                   channel_has_external_multi, callVars, fuzzyVars, cleanVars, allocVars,
                   outputVars>>

\* A variant without the break on an empty list of pending channels.
AtSource_no_break ==
    /\ pc = "sources" /\ config.ENABLE_EXTERNAL_EPG
    /\ source_idx < MaxSources

\* The loop over enabled_sources is at the top of an iteration.
AtSource ==
    /\ pc = "sources" /\ config.ENABLE_EXTERNAL_EPG
    /\ source_idx < MaxSources /\ pending_channels # <<>>

\* The loop is over, or was not entered.
LoopEnded ==
    /\ pc = "sources"
    /\ ~config.ENABLE_EXTERNAL_EPG \/ source_idx = MaxSources \/ pending_channels = <<>>

\* download_url(source_url) of the entry the loop is at.
DownloadEvent(epg_source) == Event("download", "source", epg_source.name, None)

\* download_url returns nothing: the loop goes on with the next source.
DownloadFail ==
    /\ AtSource
    /\ io' = io \o <<DownloadEvent(enabled_sources(source_idx + 1)),
                     Event("log", "STEP4_SOURCE_FAIL", enabled_sources(source_idx + 1).name, None)>>
    /\ source_idx' = source_idx + 1
    /\ UNCHANGED <<utilVars, pc, config, storeVars, callVars, fuzzyVars, cleanVars, pendingVars, allocVars,
                   outputVars>>

\* A variant in which the external channels get their ids before the test
\* that sends an empty parse to the next source.
TablesAfterParseFail_allocated(parsed, tables) ==
    AllocateChannels(parsed.full_channel_info, 1, tables)

\* The identity tables when parse_external_epg found no program: the
\* continue comes before the allocation, the tables are as they were.
TablesAfterParseFail(parsed, tables) == tables

AllocatorStart ==
    [existing_ids |-> ExistingIds(unmatched_bjcul_channels, ext_id_mapping),
     ext_id_mapping |-> ext_id_mapping,
     ext_channel_name_to_final_id |-> ext_channel_name_to_final_id,
     ext_final_id_to_info |-> ext_final_id_to_info]

PendingStart ==
    [programme_list |-> programme_list, channel_time_ranges |-> channel_time_ranges,
     temp_num_counter |-> temp_num_counter, channels |-> unmatched_bjcul_channels,
     single |-> channel_has_external_single, multi |-> channel_has_external_multi,
     next_pending |-> <<>>, global_matched |-> <<>>, match_success |-> <<>>]

\* What a source that parsed to nothing leaves: the parse result, and the
\* identity tables.
ParseFailed(parsed, tables) ==
    /\ full_channel_info' = parsed.full_channel_info
    /\ ext_id_mapping' = tables.ext_id_mapping
    /\ ext_channel_name_to_final_id' = tables.ext_channel_name_to_final_id
    /\ ext_final_id_to_info' = tables.ext_final_id_to_info

\* parse_external_epg finds no program: the loop goes on with the next source.
ParseFail ==
    /\ AtSource
    /\ \E epg_data \in EmptyDocuments :
        LET parsed == parse_external_epg(epg_data, enabled_sources(source_idx + 1).is_official)
        IN  /\ parsed.epg_map = <<>> \/ parsed.epg_identifiers = <<>>
            /\ ParseFailed(parsed, TablesAfterParseFail(parsed, AllocatorStart))
    /\ io' = io \o <<DownloadEvent(enabled_sources(source_idx + 1)),
                     Event("log", "STEP4_SOURCE_PARSE_FAIL",
                           enabled_sources(source_idx + 1).name, None)>>
    /\ source_idx' = source_idx + 1
    /\ UNCHANGED <<utilVars, pc, config, storeVars, callVars, fuzzyVars, cleanVars, pendingVars, outputVars,
                   all_external_programs>>

\* The STEP4_MATCH_SUCCESS lines of a source: one per channel that had a
\* program accepted, in the order of the loop.
MatchEvents(match_success, epg_source) ==
    [i \in 1 .. Len(match_success) |->
        Event("log", "STEP4_MATCH_SUCCESS", epg_source.name, match_success[i])]

\* The state a source leaves: alloc is what the allocator loop returns,
\* loop what the loop over the pending channels returns.
SourceDone(epg_source, parsed, alloc, loop) ==
    /\ full_channel_info' = parsed.full_channel_info
    /\ ext_id_mapping' = alloc.ext_id_mapping
    /\ ext_channel_name_to_final_id' = alloc.ext_channel_name_to_final_id
    /\ ext_final_id_to_info' = alloc.ext_final_id_to_info
    /\ all_external_programs' =
           IF ENABLE_KEEP_OTHER_CHANNELS
           THEN all_external_programs
                    \o ExternalProgramsOf(parsed.full_program_info, alloc.ext_id_mapping)
           ELSE all_external_programs
    /\ programme_list' = loop.programme_list
    /\ channel_time_ranges' = loop.channel_time_ranges
    /\ temp_num_counter' = loop.temp_num_counter
    /\ unmatched_bjcul_channels' = loop.channels
    /\ channel_has_external_single' = loop.single
    /\ channel_has_external_multi' = loop.multi
    /\ pending_channels' = loop.next_pending
    /\ global_final_unmatched_channels' =
           StillUnmatched(global_final_unmatched_channels, loop.global_matched)
    /\ io' = io \o <<DownloadEvent(epg_source)>> \o MatchEvents(loop.match_success, epg_source)

\* Each part of the turn is computed once and handed to SourceDone.
SourceBody(epg_source, epg_data) ==
    \E parsed \in {ApplyRename(parse_external_epg(epg_data, epg_source.is_official),
                                RenameMapOf(epg_source.channel_rename, 1, <<>>))} :
      \E alloc \in {IF ENABLE_KEEP_OTHER_CHANNELS
                     THEN AllocateChannels(parsed.full_channel_info, 1, AllocatorStart)
                     ELSE AllocatorStart} :
        \E loop \in {ProcessPending(pending_channels, 1, PendingStart, epg_source, parsed,
                                      channel_has_official_prog)} :
          SourceDone(epg_source, parsed, alloc, loop)

\* One iteration of the loop over enabled_sources with a document that has
\* programs: rename, allocation of the external channels, the external
\* programs, the loop over the pending channels.
ProcessSource ==
    /\ AtSource
    /\ \E epg_data \in SourceDocuments :
        SourceBody(enabled_sources(source_idx + 1), epg_data)
    /\ source_idx' = source_idx + 1
    /\ UNCHANGED <<utilVars, pc, config, callVars, fuzzyVars, cleanVars, channel_has_official_prog,
                   outputVars>>

\* After the loop the summary reads global_final_unmatched_channels. When
\* the master switch is off the name was never bound: the read raises, the
\* handler of epg_main logs the error and exits with status 1, before step 5.
SummaryNameError ==
    /\ LoopEnded
    /\ global_final_unmatched_channels = Unbound
    /\ io' = Append(io, Event("log", "FATAL", 0, None))
    /\ pc' = "fatal"
    /\ UNCHANGED <<utilVars, config, source_idx, storeVars, callVars, fuzzyVars, cleanVars, pendingVars,
                   allocVars, outputVars>>

\* The documents step 5 writes: the lite one, and the full one when external
\* channels exist.
WriteEvents(with_full) ==
    IF with_full
    THEN <<Event("write", "epg_lite", 0, None), Event("write", "epg_full", 0, None)>>
    ELSE <<Event("write", "epg_lite", 0, None)>>

\* The loop has ended (no source or no pending channel left): step 5 writes
\* the lite document and, when external channels exist, the full one.
GenerateXml ==
    /\ LoopEnded
    /\ global_final_unmatched_channels # Unbound
    /\ epg_lite' = LiteDocument(unmatched_bjcul_channels, programme_list)
    /\ epg_full' =
           IF ENABLE_KEEP_OTHER_CHANNELS /\ ext_channel_name_to_final_id # <<>>
           THEN FullDocument(unmatched_bjcul_channels, programme_list, all_external_programs,
                             ext_channel_name_to_final_id, ext_final_id_to_info)
           ELSE epg_full
    /\ io' = io \o WriteEvents(ENABLE_KEEP_OTHER_CHANNELS /\ ext_channel_name_to_final_id # <<>>)
    /\ pc' = "done"
    /\ UNCHANGED <<utilVars, config, source_idx, storeVars, callVars, fuzzyVars, cleanVars, pendingVars,
                   allocVars>>

Next ==
    \/ ConfigError \/ Steps1To3
    \/ DownloadFail \/ ParseFail \/ ProcessSource
    \/ SummaryNameError \/ GenerateXml

Spec == Init /\ [][Next]_vars

------------------------------------------------------------------------------
(* download_with_cache *)

\* What an attempt of the retry loop meets: urlopen raises, the status is
\* not 200, res.read() raises after the cache file was opened for writing,
\* or the body is read and written.
Outcomes == {"refused", "status", "cut", "ok"}

EmptyFile == <<>>

\* The block that moves an existing cache file to the backup file.
BackupOldCache(files) ==
    IF files.cache_file # Absent
    THEN [files EXCEPT !.cache_file = Absent, !.old_cache_file = files.cache_file]
    ELSE files

\* for i in range(retry + 1): the loop ends at the first body written.
\* open(cache_file, 'wb') comes before res.read(): a read that raises
\* leaves the file that was just opened, empty.
RECURSIVE Attempts(_, _, _, _)
Attempts(outcomes, i, files, body) ==
    IF i > Len(outcomes) THEN files
    ELSE IF outcomes[i] = "ok"
    THEN [files EXCEPT !.cache_file = body, !.download_success = TRUE]
    ELSE IF outcomes[i] = "cut"
    THEN Attempts(outcomes, i + 1, [files EXCEPT !.cache_file = EmptyFile], body)
    ELSE Attempts(outcomes, i + 1, files, body)

\* The end of the function: the backup is removed after a download, put
\* back after a failure; without a backup the call returns None.
AfterAttempts(files) ==
    IF files.download_success
    THEN [cache_file |-> files.cache_file, old_cache_file |-> Absent, result |-> "cache_file"]
    ELSE IF files.old_cache_file # Absent
    THEN [cache_file |-> files.old_cache_file, old_cache_file |-> Absent,
          result |-> "cache_file"]
    ELSE [cache_file |-> files.cache_file, old_cache_file |-> Absent, result |-> "None"]

download_with_cache(cache, old_cache, outcomes, body) ==
    AfterAttempts(Attempts(outcomes, 1,
        BackupOldCache([cache_file |-> cache, old_cache_file |-> old_cache,
                        download_success |-> FALSE]),
        body))

------------------------------------------------------------------------------
(* Specification SpecCache: calls of download_with_cache for one URL *)

\* The outcomes of the attempts of a call with the given retry: the loop
\* makes no attempt after a successful one.
AttemptOutcomes(retry) ==
    {o \in [1 .. (retry + 1) -> Outcomes] : \A i \in 1 .. retry : o[i] # "ok"}

\* The cache directory holds no file for the URL, or the body of an
\* earlier run's download.
InitCache ==
    /\ StoreEmpty /\ CallIdle /\ FuzzyIdle /\ CleanIdle /\ MainIdle /\ EscapeIdle
    /\ cache_file \in {Absent, <<0>>}
    /\ old_cache_file = Absent
    /\ dc_entry = Absent
    /\ dc_outcomes = <<>>
    /\ dc_result = "none"
    /\ dc_last_body = cache_file
    /\ dc_calls = 0

\* One call; the body a successful attempt reads is the number of the call.
CallDownload ==
    /\ dc_calls \in 0 .. (MaxCacheCalls - 1)
    /\ \E retry \in 0 .. MaxRetry : \E outcomes \in AttemptOutcomes(retry) :
        \E r \in {download_with_cache(cache_file, old_cache_file, outcomes,
                                       <<dc_calls + 1>>)} :
            /\ cache_file' = r.cache_file
            /\ old_cache_file' = r.old_cache_file
            /\ dc_result' = r.result
            /\ dc_outcomes' = outcomes
            /\ dc_last_body' = IF outcomes[Len(outcomes)] = "ok"
                               THEN <<dc_calls + 1>> ELSE dc_last_body
    /\ dc_entry' = cache_file
    /\ dc_calls' = dc_calls + 1
    /\ UNCHANGED <<storeVars, callVars, fuzzyVars, cleanVars, mainVars, escapeVars>>

NextCache == CallDownload

SpecCache == InitCache /\ [][NextCache]_vars

------------------------------------------------------------------------------
(* htmlspecialchars (src/playlist_generator.py) *)

Quote == "\""
Apostrophe == "'"
Ampersand == "&"
QuoteEntity == <<"&", "q", "u", "o", "t", ";">>
ApostropheEntity == <<"&", "#", "0", "3", "9", ";">>
AmpersandEntity == <<"&", "a", "m", "p", ";">>

\* s.replace(c, new) for a one-character c: left to right, the text put in
\* is not looked at again by the same call.
RECURSIVE Replace(_, _, _)
Replace(s, c, new) ==
    IF s = <<>> THEN <<>>
    ELSE (IF Head(s) = c THEN new ELSE <<Head(s)>>) \o Replace(Tail(s), c, new)

\* The three replace calls, in the order of the return statement.
htmlspecialchars(s) ==
    Replace(Replace(Replace(s, Quote, QuoteEntity), Apostrophe, ApostropheEntity),
            Ampersand, AmpersandEntity)

------------------------------------------------------------------------------
(* Specification SpecEscape: a call of htmlspecialchars *)

EscapeChars == {"a", Ampersand, Quote, Apostrophe}
EscapeInputs == UNION {[1 .. n -> EscapeChars] : n \in 0 .. MaxEscapeLen}

InitEscape ==
    /\ StoreEmpty /\ CallIdle /\ FuzzyIdle /\ CleanIdle /\ MainIdle /\ CacheIdle
    /\ hs_s \in EscapeInputs
    /\ hs_result = <<>>
    /\ hs_pc = "ready"

CallEscape ==
    /\ hs_pc = "ready"
    /\ hs_result' = htmlspecialchars(hs_s)
    /\ hs_pc' = "done"
    /\ UNCHANGED <<hs_s, storeVars, callVars, fuzzyVars, cleanVars, mainVars, cacheVars>>

NextEscape == CallEscape

SpecEscape == InitEscape /\ [][NextEscape]_vars

------------------------------------------------------------------------------
(* Properties of the interval deduplication store (SpecDedup) *)

\* The instants the store compares: the date-time words of a well-formed
\* program's start and stop.
StartOf(prog) == prog.start[1]
EndOf(prog) == prog.stop[1]
Parses(prog) ==
    /\ prog.channel # None
    /\ prog.start # <<>> /\ prog.stop # <<>>
    /\ StartOf(prog) \in Nat /\ EndOf(prog) \in Nat
WindowsOverlap(p, q) == StartOf(p) < EndOf(q) /\ StartOf(q) < EndOf(p)
RangesOf(ctr, channel) == IF channel \in DOMAIN ctr THEN ctr[channel] ELSE <<>>

\* C1: for every channel, no two intervals stored at different places of
\* channel_time_ranges[channel] overlap: not (s1 < e2 and s2 < e1).
C1_NoStoredOverlap ==
    \A c \in DOMAIN channel_time_ranges :
        \A i, j \in 1 .. Len(channel_time_ranges[c]) :
            i # j =>
                LET a == channel_time_ranges[c][i]
                    b == channel_time_ranges[c][j]
                IN  ~(a[1] < b[2] /\ b[1] < a[2])

\* A channel holds two intervals and the last call was rejected for overlap.
C1_Witness ==
    /\ \E c \in DOMAIN channel_time_ranges : Len(channel_time_ranges[c]) >= 2
    /\ last_result = "False" /\ Parses(last_prog)

\* C2: a program submitted for a channel with nothing stored is accepted
\* when it parses, and a program submitted right after an accepted one, for
\* the same channel and with an overlapping window, returns False and leaves
\* the lengths of programme_list and of the channel's interval list unchanged.
C2_FirstWins ==
    [][ /\ (/\ Parses(last_prog')
            /\ RangesOf(channel_time_ranges, last_prog'.channel) = <<>>)
           => last_result' = "True"
        /\ (/\ last_result = "True"
            /\ Parses(last_prog')
            /\ last_prog'.channel = last_prog.channel
            /\ WindowsOverlap(last_prog, last_prog'))
           => /\ last_result' = "False"
              /\ Len(programme_list') = Len(programme_list)
              /\ Len(RangesOf(channel_time_ranges', last_prog.channel))
                     = Len(RangesOf(channel_time_ranges, last_prog.channel))
      ]_vars

\* The second of two overlapping programs was rejected while the channel
\* already held an older interval as well.
C2_Witness ==
    /\ last_result = "False" /\ Parses(last_prog)
    /\ Len(RangesOf(channel_time_ranges, last_prog.channel)) = 2
    /\ LET first == programme_list[Len(programme_list)]
       IN  first.channel = last_prog.channel /\ WindowsOverlap(first, last_prog)

\* C7: a program whose timestamps parse and whose start is not before its
\* end is rejected (the call returns False).
C7_InvalidWindowRejected ==
    (last_result # "none" /\ Parses(last_prog) /\ StartOf(last_prog) >= EndOf(last_prog))
        => last_result = "False"

\* C8: a call that returns False leaves programme_list and
\* channel_time_ranges (its keys included) as they were.
C8_RejectionChangesNothing ==
    [][ last_result' = "False" =>
            /\ programme_list' = programme_list
            /\ channel_time_ranges' = channel_time_ranges
            /\ DOMAIN channel_time_ranges' = DOMAIN channel_time_ranges ]_vars

\* A well-formed program was rejected for overlap.
C8_Witness ==
    /\ last_result = "False" /\ Parses(last_prog)
    /\ Len(programme_list) >= 1

\* The number of entries of pl filed under channel.
EntriesOf(pl, channel) == Cardinality({i \in 1 .. Len(pl) : pl[i].channel = channel})

\* The two containers agree: each channel has as many stored entries as
\* stored intervals, and every entry has a channel, a start and a stop.
StoreConsistent(pl, ctr) ==
    /\ \A c \in DOMAIN ctr \cup {pl[i].channel : i \in 1 .. Len(pl)} :
           EntriesOf(pl, c) = Len(RangesOf(ctr, c))
    /\ \A i \in 1 .. Len(pl) :
           pl[i].channel # None /\ pl[i].start # <<>> /\ pl[i].stop # <<>>

\* C27: after any sequence of calls, every channel has as many entries in
\* programme_list as intervals in channel_time_ranges (none when it has no
\* key), every stored entry has a non-empty channel, start and stop, and a
\* call leaves the entries stored before it in place: the list after the
\* call is the list before it, or that list with the new program appended.
C27_StoreConsistentAppendOnly ==
    /\ [](StoreConsistent(programme_list, channel_time_ranges))
    /\ [][\/ programme_list' = programme_list
          \/ programme_list' = Append(programme_list, last_prog')]_vars

\* Two channels hold entries, one of them two of the three stored.
C27_Witness ==
    /\ Len(programme_list) = 3
    /\ Cardinality({programme_list[i].channel : i \in 1 .. 3}) = 2
    /\ last_result = "True"

\* C28: a program equal to one already stored (same channel, start, stop
\* and title) is rejected and the stored list keeps its length.
C28_ReplayRejected ==
    [][(\E i \in 1 .. Len(programme_list) : programme_list[i] = last_prog')
       => /\ last_result' = "False"
          /\ programme_list' = programme_list]_vars

\* The windows of p and q touch: one ends at the instant the other starts.
WindowsTouch(p, q) == EndOf(p) = StartOf(q) \/ EndOf(q) = StartOf(p)

\* C13: after a program has been accepted as the only one of its channel, a
\* program of the same channel whose window touches its window at an
\* endpoint, before it or after it, is accepted too.
C13_TouchingAccepted ==
    [][(/\ last_result = "True"
        /\ Len(RangesOf(channel_time_ranges, last_prog.channel)) = 1
        /\ Parses(last_prog')
        /\ last_prog'.channel = last_prog.channel
        /\ WindowsTouch(last_prog, last_prog'))
       => /\ last_result' = "True"
          /\ programme_list' = Append(programme_list, last_prog')
          /\ Len(RangesOf(channel_time_ranges', last_prog.channel)) = 2
      ]_vars

\* A channel holds a window and, accepted after it, the window that ends
\* where it starts; both last longer than an instant.
C13_Witness ==
    /\ last_result = "True"
    /\ LET ranges == RangesOf(channel_time_ranges, last_prog.channel)
       IN  /\ Len(ranges) = 2
           /\ ranges[2][2] = ranges[1][1]
           /\ ranges[1][1] < ranges[1][2] /\ ranges[2][1] < ranges[2][2]

------------------------------------------------------------------------------
(* Properties of fuzzy_match (SpecFuzzy) *)

\* The normalized names of the candidates of the call, and their tags.
CandCleans == [i \in 1 .. Len(fm_ext_names) |-> ExtClean(fm_ext_names[i], fm_clean_ext_name)]
CandTags(cl) == [i \in 1 .. Len(cl) |-> CctvTag(cl[i])]
CandPasses(cl, i) == LocalIs4K(fm_local) \/ ~Contains(cl[i], Marker4K)
LocalRegion ==
    IF ~Contains(fm_local, CCTV \o <<"4">>) THEN <<>>
    ELSE IF Contains(fm_local, OuZhou) THEN OuZhou
    ELSE IF Contains(fm_local, MeiZhou) THEN MeiZhou ELSE <<>>

\* Candidate i satisfies rule k: 1 composite-keyword, 2 exact, 3 regional
\* variant, 4 high-resolution variant, 5 tag equality, 6 containment,
\* 7 plus-stripped equality. Rules 2 to 7 see the candidates that pass the
\* high-resolution filter.
RuleSat(k, i, cl, tg) ==
    CASE k = 1 -> /\ Contains(fm_local, CGTN) /\ Contains(fm_local, JiLu)
                  /\ Contains(cl[i], CGTN) /\ Contains(cl[i], JiLu)
      [] k = 2 -> CandPasses(cl, i) /\ cl[i] = fm_local
      [] k = 3 -> /\ CandPasses(cl, i) /\ LocalRegion # <<>>
                  /\ tg[i] = <<"4">> /\ Contains(cl[i], LocalRegion)
      [] k = 4 -> /\ CandPasses(cl, i) /\ Contains(fm_local, CCTV \o Marker4K)
                  /\ Contains(cl[i], CCTV \o Marker4K)
      [] k = 5 -> /\ CandPasses(cl, i) /\ CctvTag(fm_local) # <<>>
                  /\ tg[i] = CctvTag(fm_local)
      [] k = 6 -> /\ CandPasses(cl, i) /\ Contains(cl[i], fm_local)
                  /\ Len(cl[i]) <= Len(fm_local) + 10
      [] OTHER -> /\ CandPasses(cl, i)
                  /\ RemoveChar(cl[i], "+") = RemoveChar(fm_local, "+")

RuleHits(k, cl, tg) == {i \in 1 .. Len(cl) : RuleSat(k, i, cl, tg)}
FirstRuleOf(cl, tg) ==
    LET sat == {k \in 1 .. 7 : RuleHits(k, cl, tg) # {}}
    IN  IF sat = {} THEN 0 ELSE CHOOSE k \in sat : \A m \in sat : k <= m
IsShortest(hits, cl, i) == \A j \in hits : Len(cl[i]) <= Len(cl[j])
IsFirst(hits, i) == \A j \in hits : i <= j

C10_Example ==
    (/\ fm_local = Name5
     /\ fm_ext_names = <<Name5 \o GaoQing, Name5 \o <<"+">>, Name5 \o OuZhou>>)
        => fm_result = Name5 \o GaoQing

\* C9: when the local channel is not a high-resolution one, a result of
\* rules 2 to 7 never holds the marker "4K", with or without cleaning.
C9_No4KCandidateReturned ==
    (/\ fm_pc = "done"
     /\ ~Contains(fm_local, CCTV \o Marker4K) /\ fm_local \notin KEEP_4K_NAMES
     /\ ~(Contains(fm_local, CGTN) /\ Contains(fm_local, JiLu))
     /\ fm_result # None)
        => ~Contains(fm_result, Marker4K)

\* C10 as stated: the result comes from the first rule, in the fixed order,
\* that some candidate satisfies, and is a candidate of minimal normalized
\* length among those satisfying that rule; CCTV5 against its three
\* candidates yields the one with the quality suffix.
C10_ShortestOfFirstRule ==
    fm_pc = "done" =>
        LET cl == CandCleans
            tg == CandTags(cl)
            rule == FirstRuleOf(cl, tg)
            hits == RuleHits(rule, cl, tg)
        IN  /\ IF rule = 0 THEN fm_result = None
               ELSE \E i \in hits : fm_ext_names[i] = fm_result /\ IsShortest(hits, cl, i)
            /\ C10_Example

\* C10 as amended: the result comes from the first rule, in the fixed
\* order, that some candidate satisfies; for the exact, regional,
\* high-resolution, tag and containment rules it is a candidate of minimal
\* normalized length among those satisfying the rule, for the plus-stripped
\* rule it is the first such candidate in list order, and for the
\* composite-keyword rule it is a candidate satisfying that rule.
C10_FirstRuleWins ==
    fm_pc = "done" =>
        LET cl == CandCleans
            tg == CandTags(cl)
            rule == FirstRuleOf(cl, tg)
            hits == RuleHits(rule, cl, tg)
        IN  /\ IF rule = 0 THEN fm_result = None
               ELSE \E i \in hits :
                        /\ fm_ext_names[i] = fm_result
                        /\ rule \in {2, 3, 4, 5, 6} => IsShortest(hits, cl, i)
                        /\ rule = 7 => IsFirst(hits, i)
            /\ C10_Example

\* The tag rule decided between two candidates of different length, the
\* shorter one standing second in the list.
C10_Witness ==
    /\ fm_pc = "done" /\ fm_result # None
    /\ LET cl == CandCleans
           tg == CandTags(cl)
           hits == RuleHits(5, cl, tg)
       IN  /\ FirstRuleOf(cl, tg) = 5
           /\ \E i, j \in hits : i < j /\ Len(cl[j]) < Len(cl[i])

------------------------------------------------------------------------------
(* Properties of the source loop and of the allocator (Spec) *)

ProgsUnder(progs, id) == SelectSeq(progs, LAMBDA p : p.channel = id)
IsSingleContribution(channel) ==
    \/ channel.raw_name \in EXCLUDE_MULTI_SOURCE_CHANNELS
    \/ channel.category \in EXCLUDE_MULTI_SOURCE_CATEGORIES
IsPending(c, pending) == \E k \in 1 .. Len(pending) : pending[k] = c

\* The single-contribution channels of unmatched_bjcul_channels that have a
\* program in the store: the positions of the satisfied ones.
SatisfiedSingles(channels, progs) ==
    {c \in 1 .. Len(channels) :
        /\ IsSingleContribution(channels[c])
        /\ channels[c].local_num # None
        /\ ProgsUnder(progs, channels[c].local_num) # <<>>}

\* C3: a single-contribution channel that has a program accepted from a
\* source is out of the pending set from the end of that source's turn on,
\* and from then on no step adds a program under its output id, neither to
\* the store nor to the external programs.
C3_SingleContributionFrozen ==
    [][/\ \A c \in SatisfiedSingles(unmatched_bjcul_channels', programme_list') :
            ~IsPending(c, pending_channels')
       /\ \A c \in SatisfiedSingles(unmatched_bjcul_channels, programme_list) :
            LET id == unmatched_bjcul_channels[c].local_num
            IN  /\ ~IsPending(c, pending_channels)
                /\ ProgsUnder(programme_list', id) = ProgsUnder(programme_list, id)
                /\ ProgsUnder(all_external_programs', id)
                       = ProgsUnder(all_external_programs, id)]_vars

\* A satisfied single-contribution channel holds one program, and the
\* source processed last offered its name on a window that does not overlap
\* that program: the offer came from a later source and was not taken.
C3_Witness ==
    /\ pc = "sources" /\ source_idx >= 2
    /\ \E c \in SatisfiedSingles(unmatched_bjcul_channels, programme_list) :
        LET channel == unmatched_bjcul_channels[c]
            stored == ProgsUnder(programme_list, channel.local_num)
        IN  /\ channel.local_num \in channel_has_external_single
            /\ ~IsPending(c, pending_channels)
            /\ Len(stored) = 1
            /\ \E k \in 1 .. Len(full_channel_info) : full_channel_info[k][2] = channel.raw_name
            /\ all_external_programs # <<>>
            /\ ~WindowsOverlap(stored[1], all_external_programs[Len(all_external_programs)])

\* C4: no two names of ext_channel_name_to_final_id have the same output
\* id, and no external output id is a permanent or a temporary id of a
\* local channel.
C4_ExternalIdsUnique ==
    /\ \A i, j \in 1 .. Len(ext_channel_name_to_final_id) :
            i # j => ext_channel_name_to_final_id[i][2] # ext_channel_name_to_final_id[j][2]
    /\ \A i \in 1 .. Len(ext_channel_name_to_final_id) :
        /\ \A k \in 1 .. Len(matched_channels) :
                matched_channels[k].local_num # ext_channel_name_to_final_id[i][2]
        /\ \A k \in 1 .. Len(unmatched_bjcul_channels) :
                unmatched_bjcul_channels[k].local_num # ext_channel_name_to_final_id[i][2]

\* A step that appends external programs is a turn of a source whose
\* channels went through the allocator.
AllocatorRan == all_external_programs' # all_external_programs

NoOverlapIn(programmes) ==
    \A i, j \in 1 .. Len(programmes) :
        (i # j /\ programmes[i].channel = programmes[j].channel)
            => ~WindowsOverlap(programmes[i], programmes[j])

\* C6: in the documents step 5 writes, no two programs of one channel have
\* overlapping windows.
C6_NoOverlapInOutput ==
    pc = "done" => NoOverlapIn(epg_lite.programmes) /\ NoOverlapIn(epg_full.programmes)

\* The candidate has both composite tokens and the English marker, in the
\* form fuzzy_match compares.
HasMarker(ext_name) ==
    LET ext_clean == ExtClean(ext_name, fm_clean_ext_name)
    IN  Contains(ext_clean, CGTN) /\ Contains(ext_clean, JiLu) /\ Contains(ext_clean, YingWen)

\* C18: for a local name with both "CGTN" and the documentary token, when
\* some candidate has both tokens and the English marker, the call returns
\* a candidate that has the marker, wherever the candidates with only the
\* two tokens stand in the list.
C18_MarkerPreferred ==
    (/\ fm_calls >= 1
     /\ Contains(fm_local, CGTN) /\ Contains(fm_local, JiLu)
     /\ \E i \in 1 .. Len(fm_ext_names) : HasMarker(fm_ext_names[i]))
    => (fm_result # None /\ HasMarker(fm_result))

------------------------------------------------------------------------------
(* Properties of the run as a whole (Spec) *)

\* The names of the external sources downloaded so far, in order.
DownloadedSources(events) ==
    LET d == SelectSeq(events, LAMBDA e : e.op = "download" /\ e.tag = "source")
    IN  [i \in 1 .. Len(d) |-> d[i].source]

\* The name of the source downloaded last before the place n of the events
\* (0 when there is none).
RECURSIVE SourceInProgress(_, _)
SourceInProgress(events, n) ==
    IF n = 0 THEN 0
    ELSE IF events[n].op = "download" /\ events[n].tag = "source" THEN events[n].source
    ELSE SourceInProgress(events, n - 1)

\* The events show the sources taken one at a time in the order of
\* EXTERNAL_EPG_SOURCES: the downloads go up the list, each is of an enabled
\* entry, no enabled entry is passed over, and every line written for a
\* source is written while it is the one downloaded last.
OneSourceAtATime(events) ==
    LET d == DownloadedSources(events)
    IN  /\ \A i \in 1 .. Len(d) : EXTERNAL_EPG_SOURCES[d[i]].enabled
        /\ \A i, j \in 1 .. Len(d) : i < j => d[i] < d[j]
        /\ \A i \in 1 .. Len(d) : \A k \in 1 .. (d[i] - 1) :
               EXTERNAL_EPG_SOURCES[k].enabled => \E j \in 1 .. (i - 1) : d[j] = k
        /\ \A n \in 1 .. Len(events) :
               events[n].source # 0 => SourceInProgress(events, n) = events[n].source

\* C14: the external sources are fetched and merged one at a time in the
\* order of EXTERNAL_EPG_SOURCES, a disabled entry is never fetched or
\* matched, and a step that offers programs of the sources to the store is
\* the whole turn of the next enabled source: it starts with its download.
C14_SourcesInConfiguredOrder ==
    [][/\ OneSourceAtATime(io')
       /\ (pc = "sources" /\ (programme_list' # programme_list
                               \/ all_external_programs' # all_external_programs
                               \/ ext_id_mapping' # ext_id_mapping))
          => /\ source_idx' = source_idx + 1
             /\ Len(io') > Len(io)
             /\ io'[Len(io) + 1].op = "download"
             /\ Len(DownloadedSources(io')) = source_idx'
      ]_vars

\* The run is over, it has downloaded three sources and the third one had a
\* program accepted.
C14_Witness ==
    /\ pc = "done"
    /\ Len(DownloadedSources(io)) >= 3
    /\ \E n \in 1 .. Len(io) :
        io[n].tag = "STEP4_MATCH_SUCCESS" /\ io[n].source = DownloadedSources(io)[3]

\* The step logs that the source it is at could not be downloaded or parsed.
SourceFailed ==
    /\ Len(io') = Len(io) + 2
    /\ io'[Len(io')].tag \in {"STEP4_SOURCE_FAIL", "STEP4_SOURCE_PARSE_FAIL"}

\* C15: a source that fails to download or parses to nothing leaves the
\* pending channels, the accepted programs, the interval store, the
\* temporary-id counter and the external identity tables as they were, and
\* the loop is at the top of its next iteration: the next enabled source is
\* processed if there is one.
C15_FailedSourceChangesNothing ==
    [][SourceFailed =>
          /\ pending_channels' = pending_channels
          /\ unmatched_bjcul_channels' = unmatched_bjcul_channels
          /\ programme_list' = programme_list
          /\ channel_time_ranges' = channel_time_ranges
          /\ temp_num_counter' = temp_num_counter
          /\ ext_id_mapping' = ext_id_mapping
          /\ ext_channel_name_to_final_id' = ext_channel_name_to_final_id
          /\ ext_final_id_to_info' = ext_final_id_to_info
          /\ all_external_programs' = all_external_programs
          /\ pc' = "sources" /\ source_idx' = source_idx + 1
          /\ (source_idx' < MaxSources => AtSource')
      ]_vars

\* A source parsed to nothing, the source after it could not be downloaded,
\* and a later source had a program accepted.
C15_Witness ==
    \E m, n \in 1 .. Len(io) :
        /\ m + 2 < n
        /\ io[m].tag = "STEP4_SOURCE_PARSE_FAIL"
        /\ io[m + 2].tag = "STEP4_SOURCE_FAIL"
        /\ io[n].tag = "STEP4_MATCH_SUCCESS"

\* C22: once the loop is at the top of an iteration with no pending channel
\* it is over: no step after that downloads or parses a source, gives an
\* external channel an id, collects external programs or offers a program
\* to the store.
C22_EmptyPendingStopsLoop ==
    [][(pc # "start" /\ pending_channels = <<>>)
          => /\ DownloadedSources(io') = DownloadedSources(io)
             /\ \A n \in (Len(io) + 1) .. Len(io') : io'[n].source = 0
             /\ UNCHANGED <<source_idx, pendingVars, allocVars, storeVars>>]_vars

\* The run is over, the last pending channel left after the first source
\* and the other enabled sources were not downloaded.
C22_Witness ==
    /\ pc = "done" /\ pending_channels = <<>>
    /\ source_idx = 1 /\ source_idx < MaxSources
    /\ DownloadedSources(io) = <<enabled_sources(1).name>>

\* C16: when the playlist format is not a key of FORMAT_MAPPING the run
\* opens no file, downloads nothing and writes no document; once it has
\* returned, the last thing it did was to log the error.
C16_ConfigErrorBeforeAnyIo ==
    config.PLAYLIST_FORMAT \notin FORMAT_MAPPING =>
        /\ pc \in {"start", "returned"}
        /\ \A n \in 1 .. Len(io) : io[n].op \notin {"open", "download", "write"}
        /\ epg_lite = NoDocument /\ epg_full = NoDocument
        /\ programme_list = <<>>
        /\ (pc = "returned" => io = <<Event("log", "FATAL", 0, None)>>)

\* The run has returned on a configuration error.
C16_Witness == pc = "returned" /\ config.PLAYLIST_FORMAT = "m3u"

\* C17: with a supported playlist format and the local channel lists read,
\* the run never ends on a fatal error, whatever the master switch and the
\* external sources are.
C17_NoFatalError == pc # "fatal"

\* The STEP4_MATCH_SUCCESS lines.
IsMatch(e) == e.op = "log" /\ e.tag = "STEP4_MATCH_SUCCESS"

\* C19: once a channel has had a program accepted from an external source
\* with is_official set, no later source has a program accepted for that
\* channel, and no external source has one accepted for a channel that has
\* programs of the official schedule server.
C19_AuthoritativeNotOverridden ==
    /\ \A m, n \in 1 .. Len(io) :
          (/\ m < n /\ IsMatch(io[m]) /\ IsMatch(io[n])
           /\ EXTERNAL_EPG_SOURCES[io[m].source].is_official
           /\ io[n].source # io[m].source)
          => io[n].channel # io[m].channel
    /\ \A n \in 1 .. Len(io) :
          IsMatch(io[n]) => io[n].channel \notin channel_has_official_prog

\* The channels, as positions in unmatched_bjcul_channels, that had a
\* program accepted from some source.
HelpedChannels ==
    {c \in 1 .. Len(unmatched_bjcul_channels) :
        \E n \in 1 .. Len(io) :
            IsMatch(io[n]) /\ io[n].channel = unmatched_bjcul_channels[c].local_num}

\* C20: when the loop has ended, the pending channels, whose number is
\* reported as the final unmatched count, are exactly the channels for which
\* no source had a program accepted.
C20_PendingAreTheUnhelped ==
    (pc = "done" \/ (LoopEnded /\ config.ENABLE_EXTERNAL_EPG)) =>
        {pending_channels[i] : i \in 1 .. Len(pending_channels)}
            = (1 .. Len(unmatched_bjcul_channels)) \ HelpedChannels

\* The step had a program accepted for the channel at position c.
AcceptedInStep(c) ==
    LET id == unmatched_bjcul_channels'[c].local_num
    IN  /\ id # None
        /\ Len(ProgsUnder(programme_list', id)) > Len(ProgsUnder(programme_list, id))
        /\ \E n \in (Len(io) + 1) .. Len(io') :
               /\ io'[n].tag = "STEP4_MATCH_SUCCESS" /\ io'[n].channel = id
               /\ io'[n].source = enabled_sources(source_idx').name

\* C21: a turn of a source takes a channel out of the pending set only if
\* the channel is a single-contribution one and that source had a program
\* accepted for it in this turn; a single-contribution channel that had no
\* program accepted (its name matched or not) and every other channel is
\* still pending after the turn.
C21_LeavesPendingOnlyWhenSatisfied ==
    [][\A c \in 1 .. Len(unmatched_bjcul_channels) :
          (IsPending(c, pending_channels) /\ ~IsPending(c, pending_channels'))
              => /\ IsSingleContribution(unmatched_bjcul_channels[c])
                 /\ source_idx' = source_idx + 1
                 /\ AcceptedInStep(c)]_vars

\* A single-contribution channel matched a source by name, got its
\* temporary id and no program, and is pending; another channel has a
\* program from a source and is pending too.
C21_Witness ==
    /\ pc = "sources" /\ source_idx >= 2
    /\ \E c, d \in 1 .. Len(unmatched_bjcul_channels) :
        LET single == unmatched_bjcul_channels[c]
            other == unmatched_bjcul_channels[d]
        IN  /\ IsSingleContribution(single) /\ IsPending(c, pending_channels)
            /\ single.local_num # None
            /\ ProgsUnder(programme_list, single.local_num) = <<>>
            /\ ~IsSingleContribution(other) /\ IsPending(d, pending_channels)
            /\ other.local_num \in channel_has_external_multi

IsTempId(id) == id # None /\ id[1] = temp_local_num_prefix
TempIds(channels) ==
    {channels[c].local_num : c \in {d \in 1 .. Len(channels) : IsTempId(channels[d].local_num)}}

\* The channels bjcul.txt lists without an id come first in
\* unmatched_bjcul_channels: they carry no id or a temporary one, the
\* others a permanent one; the temporary ids are unm_1 .. unm_(counter - 1),
\* one channel each, and are no id of the playlist and no external id.
TempIdsWellFormed ==
    LET channels == unmatched_bjcul_channels
    IN  /\ \A c \in 1 .. Len(channels) :
               IF c <= Len(UnmatchedIdChannels)
               THEN channels[c].local_num = None \/ IsTempId(channels[c].local_num)
               ELSE channels[c].local_num # None /\ ~IsTempId(channels[c].local_num)
        /\ \A c, d \in 1 .. Len(channels) :
               (c # d /\ IsTempId(channels[c].local_num))
                   => channels[c].local_num # channels[d].local_num
        /\ TempIds(channels)
               = {Id(temp_local_num_prefix, ToString(n)) : n \in 1 .. (temp_num_counter - 1)}
        /\ \A id \in TempIds(channels) :
               /\ \A k \in 1 .. Len(matched_channels) : matched_channels[k].local_num # id
               /\ id \notin DictValues(ext_channel_name_to_final_id)
               /\ id \notin DictValues(ext_id_mapping)
               /\ ~DictHas(ext_final_id_to_info, id)

\* The step is the turn of a source whose document had programs.
SourceProcessed == source_idx' = source_idx + 1 /\ ~SourceFailed

\* The source of the step matches by name and has a channel of the name of
\* the local channel at position c.
OfferedByName(c) ==
    /\ ~enabled_sources(source_idx').is_official
    /\ \E k \in 1 .. Len(full_channel_info') :
           full_channel_info'[k][2] = unmatched_bjcul_channels[c].raw_name

ResolvedNames(info) == [k \in 1 .. Len(info) |-> info[k][2]]

\* C24: in the turn of an authoritative source a channel with a permanent
\* id has programs accepted only when its id is one of the native ids of
\* the source; a channel without a permanent id, under any source, gets its
\* temporary id exactly when the fuzzy matcher finds its name among the
\* resolved names of the source, and a channel with a permanent id has
\* programs accepted from a non-authoritative source only when the matcher
\* finds its name among them.
C24_MatchByIdOrByName ==
    [][SourceProcessed =>
          \A c \in 1 .. Len(unmatched_bjcul_channels) :
              LET channel == unmatched_bjcul_channels[c]
                  epg_source == enabled_sources(source_idx')
                  by_name == fuzzy_match(channel.clean_name,
                                         ResolvedNames(full_channel_info'),
                                         epg_source.clean_name) # None
              IN  IsPending(c, pending_channels) =>
                    IF /\ epg_source.is_official
                       /\ channel.local_num # None /\ ~IsTempId(channel.local_num)
                    THEN AcceptedInStep(c) =>
                             \E k \in 1 .. Len(full_channel_info') :
                                 StrOf(full_channel_info'[k][1]) = IdText(channel.local_num)
                    ELSE IF channel.local_num = None
                    THEN by_name <=> unmatched_bjcul_channels'[c].local_num # None
                    ELSE AcceptedInStep(c) => by_name]_vars

\* C25: when the loop over the sources has ended, the channels of
\* global_final_unmatched_channels are the channels that were pending before
\* the first source and had no program accepted from any source; a channel
\* whose name matched a source that had all its programs rejected is one of
\* them.
C25_FinalUnmatchedAreTheUnhelped ==
    (global_final_unmatched_channels # Unbound /\ (pc = "done" \/ LoopEnded)) =>
        {global_final_unmatched_channels[i] : i \in 1 .. Len(global_final_unmatched_channels)}
            = (1 .. Len(unmatched_bjcul_channels)) \ HelpedChannels

\* The external names the full document takes: the names that are no
\* name of a local channel, as places of ext_channel_name_to_final_id.
ExternalOnly(name_to_id) ==
    {i \in 1 .. Len(name_to_id) : name_to_id[i][1] \notin local_channel_names}

\* The test of the id-conflict branch succeeds for some external name: its
\* id is the id of a channel of the lite document or of an external name
\* the loop met before it.
IdConflictBranchTaken(name_to_id, lite_channels) ==
    \E i \in ExternalOnly(name_to_id) :
        \/ \E k \in 1 .. Len(lite_channels) : lite_channels[k].id = name_to_id[i][2]
        \/ \E j \in ExternalOnly(name_to_id) : j < i /\ name_to_id[j][2] = name_to_id[i][2]

\* C26: when the documents are written, the output id of every external
\* name differs from the permanent ids of the playlist, from the temporary
\* ids given during the run and from the output id of every other external
\* name, and the id-conflict branch of the full document is not taken.
C26_NoIdConflictAtOutput ==
    pc = "done" =>
        LET name_to_id == ext_channel_name_to_final_id
        IN  /\ \A i \in 1 .. Len(name_to_id) :
                   /\ \A k \in 1 .. Len(matched_channels) :
                          matched_channels[k].local_num # name_to_id[i][2]
                   /\ name_to_id[i][2] \notin TempIds(unmatched_bjcul_channels)
                   /\ \A j \in 1 .. Len(name_to_id) :
                          j # i => name_to_id[j][2] # name_to_id[i][2]
            /\ ~IdConflictBranchTaken(name_to_id, epg_lite.channels)

------------------------------------------------------------------------------
(* Properties of clean_channel_name (SpecClean) *)

\* C11: clean_channel_name is idempotent: cleaning what a call returned
\* returns it unchanged, for every raw name, names with whitespace other than
\* the blank included.
C11_CleanIdempotent == cn_calls >= 2 => cn_result = cn_prev

------------------------------------------------------------------------------
(* Properties of download_with_cache (SpecCache) *)

\* Every attempt of the last call failed.
AllAttemptsFailed == \A i \in 1 .. Len(dc_outcomes) : dc_outcomes[i] # "ok"

\* C29: after a call, a path is returned only when the cache file holds the
\* complete body of the most recent successful download; when every attempt
\* of the call failed, the cache file holds what it held when the call
\* began and its path is returned, or there was none, None is returned and
\* there is no cache file; and the backup file does not exist.
C29_CacheHoldsLastDownload ==
    dc_calls >= 1 =>
        /\ dc_result = "cache_file" =>
               (dc_last_body # Absent /\ cache_file = dc_last_body)
        /\ AllAttemptsFailed =>
               IF dc_entry # Absent
               THEN dc_result = "cache_file" /\ cache_file = dc_entry
               ELSE dc_result = "None" /\ cache_file = Absent
        /\ old_cache_file = Absent

------------------------------------------------------------------------------
(* Properties of htmlspecialchars (SpecEscape) *)

\* What PHP's function gives: each character of the input is looked at once.
PhpEntity(c) ==
    IF c = Ampersand THEN AmpersandEntity
    ELSE IF c = Quote THEN QuoteEntity
    ELSE IF c = Apostrophe THEN ApostropheEntity
    ELSE <<c>>
RECURSIVE EscapedOnce(_)
EscapedOnce(s) == IF s = <<>> THEN <<>> ELSE PhpEntity(Head(s)) \o EscapedOnce(Tail(s))

\* C30: the result has "&amp;" for every "&" of the input, "&quot;" for
\* every double quote and "&#039;" for every apostrophe, every character of
\* the input escaped once: the entity of a quote is not escaped again.
C30_EscapedExactlyOnce == hs_pc = "done" => hs_result = EscapedOnce(hs_s)

====
